---- MODULE Spec2Model ----
(***************************************************************************)
(* Contact management API (rafamenegheti/backend-test): the contact store  *)
(* (contatos / telefones tables), the ContactService use cases, the        *)
(* controllers that turn service results and thrown errors into responses, *)
(* and the HG Brasil weather client.                                       *)
(*                                                                         *)
(* Every awaited database statement is one atomic step; a request is a     *)
(* process that moves from statement to statement, so that requests        *)
(* interleave between their awaits as they do on the Node event loop.      *)
(***************************************************************************)
EXTENDS Integers, Sequences, FiniteSets, TLC

(***************************************************************************)
(* Bounds of the model.                                                    *)
(***************************************************************************)
MaxOps == 3            \* requests issued in one behaviour (each is a process)
MaxContacts == 2       \* contact ids 1..MaxContacts
MaxEmail == 2          \* distinct email values
MaxCity == 1           \* distinct city values
MaxNumero == 2         \* distinct phone number strings
MaxCreatePhones == 2   \* length of the telefones list of a create
MaxAddPhones == 1      \* length of addPhoneNumbers of an update
MaxDeletePhones == 2   \* length of deletePhoneNumbers of an update
MaxPhoneId == 2        \* phone ids a deletePhoneNumbers list may name
MaxListOps == 1        \* list calls over one drawn store
MaxListContacts == 4   \* contacts of a drawn store that varies active flags
MaxSearchContacts == 2 \* contacts of a drawn store that varies the texts
MaxPage == 3           \* page numbers 0..MaxPage of a list call

(***************************************************************************)
(* Program constants.                                                      *)
(***************************************************************************)
ColdMax == 18          \* temp <= 18 is cold
HotMin == 30           \* temp >= 30 is hot
DefaultPage == 1       \* params.page ?? 1
DefaultLimit == 10     \* params.limit ?? 10
MaxLimit == 100        \* Math.min(requestedLimit, 100)

Procs == 1..MaxOps
ContactIds == 1..MaxContacts

\* Text values are strings, a string is a sequence of characters.  The k-th
\* email is "ek", the k-th city "ck", the k-th phone number "9k".
Digit(k) == <<"1", "2", "3", "4", "5", "6", "7", "8", "9">>[k]
EmailText(k) == <<"e", Digit(k)>>
CityText(k) == <<"c", Digit(k)>>
NumeroText(k) == <<"9", Digit(k)>>

Emails == {EmailText(k) : k \in 1..MaxEmail}
Cities == {CityText(k) : k \in 1..MaxCity}
Numeros == {NumeroText(k) : k \in 1..MaxNumero}

\* An optional value: <<>> is undefined / null, <<v>> is the value v.
Opt(S) == {<<>>} \cup {<<v>> : v \in S}
IsSome(o) == Len(o) > 0
Get(o) == o[1]

\* All sequences over S of length at most n.
SeqsUpTo(S, n) == UNION {[1..k -> S] : k \in 0..n}

RECURSIVE SeqToSet(_)
SeqToSet(s) == IF s = <<>> THEN {} ELSE {Head(s)} \cup SeqToSet(Tail(s))

\* Faulty variant: every named id is kept, owned or not.
FilterSeqAll(s, keep) == s

\* Array.prototype.filter
RECURSIVE FilterSeq(_, _)
FilterSeq(s, keep) ==
  IF s = <<>> THEN <<>>
  ELSE IF Head(s) \in keep THEN <<Head(s)>> \o FilterSeq(Tail(s), keep)
       ELSE FilterSeq(Tail(s), keep)

(***************************************************************************)
(* Text.  A string is a sequence of characters; only the characters of the *)
(* condition vocabulary are needed.                                        *)
(***************************************************************************)
ToLowerChar(c) ==
  CASE c = "C" -> "c" [] c = "S" -> "s" [] c = "N" -> "n" [] c = "G" -> "g"
    [] c = "L" -> "l" [] c = "E" -> "e" [] c = "P" -> "p" [] c = "T" -> "t"
    [] c = "A" -> "a" [] c = "B" -> "b" [] c = "H" -> "h" [] c = "U" -> "u"
    [] c = "V" -> "v"
    [] OTHER -> c

\* String.prototype.toLowerCase
ToLowerCase(s) == [i \in 1..Len(s) |-> ToLowerChar(s[i])]

\* String.prototype.includes
Includes(s, sub) ==
  \E i \in 0..(Len(s) - Len(sub)) :
    \A j \in 1..Len(sub) : s[i + j] = sub[j]

Chuva == <<"c", "h", "u", "v", "a">>
Chuvisco == <<"c", "h", "u", "v", "i", "s", "c", "o">>
Garoa == <<"g", "a", "r", "o", "a">>
Precipitacao == <<"p", "r", "e", "c", "i", "p", "i", "t", "a", "ç", "ã", "o">>
Limpo == <<"l", "i", "m", "p", "o">>
Sol == <<"s", "o", "l">>
Ensolarado == <<"e", "n", "s", "o", "l", "a", "r", "a", "d", "o">>
Claro == <<"c", "l", "a", "r", "o">>

(***************************************************************************)
(* Weather advisor.                                                        *)
(***************************************************************************)
IsRainy(condition) ==
  LET normalized == ToLowerCase(condition) IN
    \/ Includes(normalized, Chuva)
    \/ Includes(normalized, Chuvisco)
    \/ Includes(normalized, Garoa)
    \/ Includes(normalized, Precipitacao)

\* Faulty variant: "claro" is not a sunny keyword.
IsSunnyNoClaro(condition) ==
  LET normalized == ToLowerCase(condition) IN
    \/ Includes(normalized, Limpo)
    \/ Includes(normalized, Sol)
    \/ Includes(normalized, Ensolarado)

IsSunny(condition) ==
  LET normalized == ToLowerCase(condition) IN
    \/ Includes(normalized, Limpo)
    \/ Includes(normalized, Sol)
    \/ Includes(normalized, Ensolarado)
    \/ Includes(normalized, Claro)

\* Faulty variant: sunny is tested before rainy.
generateWeatherSuggestionSunnyFirst(temp, condition) ==
  IF temp <= ColdMax THEN "chocolate quente"
  ELSE IF temp >= HotMin THEN
    IF IsSunny(condition) THEN "praia" ELSE "sorvete"
  ELSE IF IsSunny(condition) THEN "atividade ao ar livre"
  ELSE IF IsRainy(condition) THEN "filme"
  ELSE "atividade ao ar livre"

generateWeatherSuggestion(temp, condition) ==
  IF temp <= ColdMax THEN "chocolate quente"
  ELSE IF temp >= HotMin THEN
    IF IsRainy(condition) THEN "sorvete"
    ELSE IF IsSunny(condition) THEN "praia"
    ELSE "sorvete"
  ELSE IF IsRainy(condition) THEN "filme"
  ELSE IF IsSunny(condition) THEN "atividade ao ar livre"
  ELSE "atividade ao ar livre"

(***************************************************************************)
(* Weather client.  The upstream is the HG Brasil HTTP endpoint; one       *)
(* Upstream value is one way a fetch can go.                               *)
(*   net     "fail" : fetch rejects (network error, timeout)               *)
(*   ok, status     : response.ok and response.status                      *)
(*   json    "throws" : response.json() rejects (malformed body)           *)
(*           "null"   : the body is the JSON value null                    *)
(*           "object" : the body is an object with the fields below        *)
(*   valid_key      : truthiness of data.valid_key                         *)
(*   results <<>>   : data.results is missing or null                      *)
(*           <<r>>  : data.results is r = [temp, description (optional)]   *)
(***************************************************************************)
Conditions == { <<"C", "h", "u", "v", "a">>,
                <<"S", "o", "l">>,
                <<"N", "u", "b", "l", "a", "d", "o">> }
Temps == {ColdMax, HotMin}

ResultsShapes == [temp : Temps, description : Opt(Conditions)]

NetworkFailure ==
  [net |-> "fail", ok |-> FALSE, status |-> 0, json |-> "throws",
   valid_key |-> FALSE, results |-> <<>>]

Upstreams ==
  {NetworkFailure}
  \cup [net : {"ok"}, ok : {FALSE}, status : {404, 500},
        json : {"object"}, valid_key : {FALSE}, results : {<<>>}]
  \cup [net : {"ok"}, ok : {TRUE}, status : {200},
        json : {"throws", "null"}, valid_key : {FALSE}, results : {<<>>}]
  \cup [net : {"ok"}, ok : {TRUE}, status : {200},
        json : {"object"}, valid_key : BOOLEAN, results : Opt(ResultsShapes)]

\* { error, message }; the message of WEATHER_API_ERROR embeds the status.
WeatherError(error, message) == [error |-> error, message |-> message]

Thrown == [thrown |-> TRUE]
Returned(v) == [thrown |-> FALSE, value |-> v]

\* The body of the try block of getWeatherData: the value it returns, or
\* Thrown where a statement of the block raises (rejected fetch, rejected
\* json(), property read of null / undefined, toLowerCase of undefined).
getWeatherDataTry(u) ==
  IF u.net = "fail" THEN Thrown
  ELSE IF ~u.ok THEN
    Returned(WeatherError("WEATHER_API_ERROR", <<"Erro na API do tempo: ", u.status>>))
  ELSE IF u.json = "throws" THEN Thrown
  ELSE IF u.json = "null" THEN Thrown
  ELSE IF ~u.valid_key /\ ~IsSome(u.results) THEN
    Returned(WeatherError("CITY_NOT_FOUND", <<"Cidade não encontrada na API do tempo">>))
  ELSE IF ~IsSome(u.results) THEN Thrown
  ELSE IF ~IsSome(Get(u.results).description) THEN Thrown
  ELSE LET temp == Get(u.results).temp
           condition == Get(Get(u.results).description)
       IN  Returned([temp |-> temp, condition |-> condition,
                     suggestion |-> generateWeatherSuggestion(temp, condition)])

\* Faulty variant: no catch block, what the try block raises propagates.
getWeatherDataNoCatch(u) == getWeatherDataTry(u)

\* try { ... } catch (error) { return WEATHER_SERVICE_UNAVAILABLE }
getWeatherData(u) ==
  LET r == getWeatherDataTry(u) IN
    IF r.thrown
    THEN Returned(WeatherError("WEATHER_SERVICE_UNAVAILABLE",
                               <<"Serviço de clima temporariamente indisponível">>))
    ELSE r

(***************************************************************************)
(* State.                                                                  *)
(*   contatos     the contatos table: id -> row                            *)
(*   telefones    the telefones table: id -> [numero, contatoId]           *)
(*   nextId, nextPhoneId   the next fresh uuid of each table               *)
(*   now          the clock read by defaultNow() and new Date(); every     *)
(*                write statement is stamped with a fresh instant          *)
(*   ops          requests issued so far; request p is process p           *)
(*   pc, req, loc, res   position, input, locals and response of a request *)
(*   snap         the tables as they were when the request began           *)
(*   lastCall     the request that returned most recently                  *)
(***************************************************************************)
VARIABLES contatos, telefones, nextId, nextPhoneId, now, ops,
          pc, req, loc, res, snap, lastCall

vars == <<contatos, telefones, nextId, nextPhoneId, now, ops,
          pc, req, loc, res, snap, lastCall>>

store == <<contatos, telefones>>

EmptyTable == [x \in {} |-> 0]

\* via: "route" for a request that entered through its controller, "service"
\* for a direct call of the ContactService method.
\* bodyId: the id key of an update input, as distinct from the id that names
\* the contact to update.
NoReq == [op |-> "none", via |-> "route", id |-> 0,
          email |-> <<>>, cidade |-> <<>>, ativo |-> <<>>,
          telefones |-> <<>>, addPhoneNumbers |-> <<>>,
          deletePhoneNumbers |-> <<>>,
          search |-> <<>>, page |-> <<>>, limit |-> <<>>,
          createdAt |-> <<>>, bodyId |-> <<>>]
NoLoc == [existing |-> <<>>, toDelete |-> <<>>, weatherCalls |-> 0,
          upstream |-> <<>>, weather |-> <<>>, tx |-> <<>>, list |-> <<>>]
NoRes == [status |-> 0, error |-> "", id |-> 0, body |-> <<>>]
NoSnap == [contatos |-> EmptyTable, telefones |-> EmptyTable]
NoCall == [op |-> "none", id |-> 0, error |-> ""]

\* Request inputs, as the request schemas admit them.
CreateInputs ==
  [op : {"create"}, via : {"route"}, id : {0},
   email : {<<e>> : e \in Emails}, cidade : {<<c>> : c \in Cities},
   ativo : {<<>>},
   telefones : Opt(SeqsUpTo(Numeros, MaxCreatePhones)),
   addPhoneNumbers : {<<>>}, deletePhoneNumbers : {<<>>},
   search : {<<>>}, page : {<<>>}, limit : {<<>>},
   createdAt : {<<>>}, bodyId : {<<>>}]

UpdateInputs ==
  [op : {"update"}, via : {"route"}, id : ContactIds,
   email : Opt(Emails), cidade : Opt(Cities), ativo : {<<>>},
   telefones : {<<>>},
   addPhoneNumbers : SeqsUpTo(Numeros, MaxAddPhones),
   deletePhoneNumbers : SeqsUpTo(1..MaxPhoneId, MaxDeletePhones),
   search : {<<>>}, page : {<<>>}, limit : {<<>>},
   createdAt : {<<>>}, bodyId : {<<>>}]

IdRequest(op, id) == [NoReq EXCEPT !.op = op, !.id = id]

Response(status, error, id, body) ==
  [status |-> status, error |-> error, id |-> id, body |-> body]

(***************************************************************************)
(* Contact store (DrizzleContactRepository over the schema).               *)
(***************************************************************************)
\* Faulty variant: email has no unique index.
EmailUniqueViolationOff(email, self) == FALSE

\* Faulty variant: the unique index covers the active rows only.
EmailUniqueViolationActiveOnly(email, self) ==
  \E c \in DOMAIN contatos :
    c # self /\ contatos[c].email = email /\ contatos[c].ativo

\* contatos.email is unique(): a row other than self already holds email.
EmailUniqueViolation(email, self) ==
  \E c \in DOMAIN contatos : c # self /\ contatos[c].email = email

PhonesOf(tels, id) == {ph \in DOMAIN tels : tels[ph].contatoId = id}

\* relation telefones of a contact: the { id, numero } of each phone it owns
PhoneSummaries(tels, id) ==
  {[id |-> ph, numero |-> tels[ph].numero] : ph \in PhonesOf(tels, id)}

\* findById: the row with its phones, or null; no filter on ativo
findById(id) ==
  IF id \in DOMAIN contatos
  THEN <<[id |-> id, row |-> contatos[id],
          telefones |-> PhoneSummaries(telefones, id)]>>
  ELSE <<>>

existsByEmail(email) == \E c \in DOMAIN contatos : contatos[c].email = email

\* text LIKE pattern of PostgreSQL: % stands for any run of characters, _ for
\* any one character, every other character for itself.
RECURSIVE Like(_, _)
Like(text, pattern) ==
  IF pattern = <<>> THEN text = <<>>
  ELSE IF Head(pattern) = "%"
  THEN Like(text, Tail(pattern)) \/ (text # <<>> /\ Like(Tail(text), pattern))
  ELSE /\ text # <<>>
       /\ Head(pattern) = "_" \/ Head(pattern) = Head(text)
       /\ Like(Tail(text), Tail(pattern))

\* ilike(column, pattern): LIKE without regard to case
ilike(column, pattern) == Like(ToLowerCase(column), ToLowerCase(pattern))

\* `%${search}%`
searchPattern(search) == <<"%">> \o search \o <<"%">>

\* or(...contactSearchConditions) for the row id of cs: the eight columns and
\* the exists-subquery over telefones; ilike of a null complemento is null.
SearchCondition(cs, tels, id, search) ==
  LET pattern == searchPattern(search) IN
    \/ ilike(cs[id].nome, pattern)
    \/ ilike(cs[id].email, pattern)
    \/ ilike(cs[id].endereco, pattern)
    \/ ilike(cs[id].bairro, pattern)
    \/ ilike(cs[id].cidade, pattern)
    \/ ilike(cs[id].estado, pattern)
    \/ ilike(cs[id].codigoZip, pattern)
    \/ IsSome(cs[id].complemento) /\ ilike(Get(cs[id].complemento), pattern)
    \/ \E ph \in DOMAIN tels :
         tels[ph].contatoId = id /\ ilike(tels[ph].numero, pattern)

\* and(...conditions): the ids of the rows the where clause keeps.  ativo is
\* a condition when it is a boolean, search when it is a non-empty string.
ListWhere(cs, tels, search, ativo) ==
  {id \in DOMAIN cs :
     /\ IsSome(ativo) => cs[id].ativo = Get(ativo)
     /\ (IsSome(search) /\ Get(search) # <<>>) =>
          SearchCondition(cs, tels, id, Get(search))}

\* .orderBy(contatos.createdAt) over the rows ids
RECURSIVE OrderByCreatedAt(_, _)
OrderByCreatedAt(cs, ids) ==
  IF ids = {} THEN <<>>
  ELSE LET first == CHOOSE a \in ids :
                      \A b \in ids : cs[a].createdAt <= cs[b].createdAt
       IN  <<first>> \o OrderByCreatedAt(cs, ids \ {first})

\* Faulty variant: the offset is ignored.
LimitOffsetFromStart(rows, limit, offset) ==
  SubSeq(rows, 1, IF limit < Len(rows) THEN limit ELSE Len(rows))

\* .limit(limit).offset(offset)
LimitOffset(rows, limit, offset) ==
  SubSeq(rows, offset + 1,
         IF offset + limit < Len(rows) THEN offset + limit ELSE Len(rows))

\* Faulty variant: every inserted row gets the first number of the list.
InsertPhonesFirstNumero(tels, first, numeros, id) ==
  tels @@ [ph \in first..(first + Len(numeros) - 1) |->
             [numero |-> numeros[1], contatoId |-> id]]

\* insert into telefones one row per number, each with a fresh id
InsertPhones(tels, first, numeros, id) ==
  tels @@ [ph \in first..(first + Len(numeros) - 1) |->
             [numero |-> numeros[ph - first + 1], contatoId |-> id]]

DeletePhone(tels, phoneId) ==
  [ph \in DOMAIN tels \ {phoneId} |-> tels[ph]]

\* Faulty variant: the soft delete also blanks the city of the row.
SoftDeleteRowBlankCity(row, at) ==
  [row EXCEPT !.ativo = FALSE, !.updatedAt = at, !.cidade = <<>>]

\* .set({ ativo: false, updatedAt: new Date() })
SoftDeleteRow(row, at) == [row EXCEPT !.ativo = FALSE, !.updatedAt = at]

\* Faulty variant: the update leaves updatedAt as it was.
SetFieldsKeepUpdatedAt(row, input, at) ==
  [row EXCEPT !.email = IF IsSome(input.email) THEN Get(input.email) ELSE @,
              !.cidade = IF IsSome(input.cidade) THEN Get(input.cidade) ELSE @,
              !.ativo = IF IsSome(input.ativo) THEN Get(input.ativo) ELSE @,
              !.createdAt =
                 IF IsSome(input.createdAt) THEN Get(input.createdAt) ELSE @]

\* .set({ ...contactData, updatedAt }): only the supplied fields are touched
SetFields(row, input, at) ==
  [row EXCEPT !.email = IF IsSome(input.email) THEN Get(input.email) ELSE @,
              !.cidade = IF IsSome(input.cidade) THEN Get(input.cidade) ELSE @,
              !.ativo = IF IsSome(input.ativo) THEN Get(input.ativo) ELSE @,
              !.createdAt =
                 IF IsSome(input.createdAt) THEN Get(input.createdAt) ELSE @,
              !.updatedAt = at]

\* The table after update ... set id = newId where id: the row moves.
Rekey(cs, id, newId, row) ==
  [k \in (DOMAIN cs \ {id}) \cup {newId} |-> IF k = newId THEN row ELSE cs[k]]

\* Date.prototype.toISOString: the textual form of an instant
toISOString(t) == <<"ISO", t>>

(***************************************************************************)
(* Errors thrown by the database driver and the controllers' catch blocks. *)
(* drizzle wraps the driver error: the wrapper has no code of its own and  *)
(* carries the driver error (code, constraint) as its cause.               *)
(***************************************************************************)
UniqueEmailError ==
  [code |-> <<>>, constraint |-> <<>>,
   cause |-> <<[code |-> "23505", constraint |-> "contatos_email_unique"]>>]

TypeErrorThrown == [code |-> <<>>, constraint |-> <<>>, cause |-> <<>>]

\* telefones.contatoId references contatos.id: a phone would lose its owner
ForeignKeyError ==
  [code |-> <<>>, constraint |-> <<>>,
   cause |-> <<[code |-> "23503",
                constraint |-> "telefones_contato_id_contatos_id_fk"]>>]

\* Faulty variant: telefones.contatoId is a plain column.
ForeignKeyViolationOff(cs, id) == FALSE

\* insert into telefones with contatoId = id, no contact having that id
ForeignKeyViolation(cs, id) == id \notin DOMAIN cs

\* contatos.id is the primary key: the id is taken
PrimaryKeyError ==
  [code |-> <<>>, constraint |-> <<>>,
   cause |-> <<[code |-> "23505", constraint |-> "contatos_pkey"]>>]

ConstraintIncludesEmail(constraint) == constraint = "contatos_email_unique"

\* catch block of POST /contacts
CreateCatch(error) ==
  IF /\ IsSome(error.cause)
     /\ Get(error.cause).code = "23505"
     /\ ConstraintIncludesEmail(Get(error.cause).constraint)
  THEN Response(409, "DUPLICATE_EMAIL", 0, <<>>)
  ELSE Response(500, "INTERNAL_SERVER_ERROR", 0, <<>>)

\* Faulty variant: the body schema lets the ativo key through.
UpdateBodySchemaPassthrough(body) == body

\* body schema of PUT /contacts/:id: a z.object without the keys ativo,
\* createdAt and id, so the parsed body never carries them.
UpdateBodySchema(body) ==
  [body EXCEPT !.ativo = <<>>, !.createdAt = <<>>, !.bodyId = <<>>]

\* What service.update receives: request.body for a route request, the
\* caller's UpdateContactInput for a direct call.
UpdateInput(r) == IF r.via = "route" THEN UpdateBodySchema(r) ELSE r

\* catch block of PUT /contacts/:id
UpdateCatch(error) ==
  IF /\ error.code = <<"23505">>
     /\ IsSome(error.constraint)
     /\ ConstraintIncludesEmail(Get(error.constraint))
  THEN Response(409, "DUPLICATE_EMAIL", 0, <<>>)
  ELSE IF error.code = <<"23503">> THEN Response(400, "INVALID_REFERENCE", 0, <<>>)
  ELSE IF IsSome(error.code) THEN Response(500, "DATABASE_ERROR", 0, <<>>)
  ELSE Response(500, "INTERNAL_SERVER_ERROR", 0, <<>>)

\* catch block of GET /contacts/:id
GetOneCatch(error) ==
  IF IsSome(error.code) THEN Response(500, "DATABASE_ERROR", 0, <<>>)
  ELSE Response(500, "INTERNAL_SERVER_ERROR", 0, <<>>)

(***************************************************************************)
(* Requests.                                                               *)
(***************************************************************************)
Init ==
  /\ contatos = EmptyTable
  /\ telefones = EmptyTable
  /\ nextId = 1
  /\ nextPhoneId = 1
  /\ now = 1
  /\ ops = 0
  /\ pc = [p \in Procs |-> "idle"]
  /\ req = [p \in Procs |-> NoReq]
  /\ loc = [p \in Procs |-> NoLoc]
  /\ res = [p \in Procs |-> NoRes]
  /\ snap = [p \in Procs |-> NoSnap]
  /\ lastCall = NoCall

\* Request p arrives: requests are numbered in the order of their first step.
Begin(p, r) ==
  /\ pc[p] = "idle"
  /\ ops = p - 1
  /\ ops' = ops + 1
  /\ req' = [req EXCEPT ![p] = r]
  /\ snap' = [snap EXCEPT ![p] = [contatos |-> contatos, telefones |-> telefones]]

Goto(p, label) == pc' = [pc EXCEPT ![p] = label]

Finish(p, response) ==
  /\ pc' = [pc EXCEPT ![p] = "done"]
  /\ res' = [res EXCEPT ![p] = response]

\* The columns no modelled request varies hold one fixed text each; the
\* optional complemento is not supplied.
NewRow(r, at) ==
  [nome |-> <<"n", "o">>, email |-> Get(r.email), codigoZip |-> <<"z", "i">>,
   endereco |-> <<"r", "u">>, bairro |-> <<"b", "a">>,
   cidade |-> Get(r.cidade), estado |-> <<"s", "p">>, complemento |-> <<>>,
   ativo |-> TRUE, createdAt |-> at, updatedAt |-> at]

\* An insert of email by request p waits while the open transaction of
\* another request holds a row with that email.
PendingEmail(email, p) ==
  \E q \in Procs \ {p} :
    pc[q] = "create_phones" /\ Get(loc[q].tx).row.email = email

\* Faulty variant: the rows of a failed transaction stay in the table.
transactionNoRollback(failed, cs, id, row) == cs @@ (id :> row)

\* db.transaction(callback): the table after the transaction ends.  The row
\* inserted inside it reaches the table at commit, and is discarded when the
\* callback throws.
transaction(failed, cs, id, row) ==
  IF failed THEN cs ELSE cs @@ (id :> row)

\* A statement of the transaction rejected by the database (connection lost,
\* statement timeout): wrapped by drizzle, cause without constraint.
StatementError ==
  [code |-> <<>>, constraint |-> <<>>,
   cause |-> <<[code |-> "08006", constraint |-> ""]>>]

\* POST /contacts: service.create -> repository.create.  First statement of
\* the transaction: insert into contatos ... returning.  Without phones the
\* transaction commits right after it.
Create(p, r) ==
  /\ Begin(p, r)
  /\ IF EmailUniqueViolation(Get(r.email), 0)
     THEN /\ Finish(p, CreateCatch(UniqueEmailError))
          /\ UNCHANGED <<contatos, nextId, now, loc>>
     ELSE /\ nextId <= MaxContacts
          /\ ~PendingEmail(Get(r.email), p)
          /\ nextId' = nextId + 1
          /\ now' = now + 1
          /\ IF IsSome(r.telefones) /\ Len(Get(r.telefones)) > 0
             THEN /\ loc' = [loc EXCEPT ![p].tx =
                               <<[id |-> nextId, row |-> NewRow(r, now)]>>]
                  /\ Goto(p, "create_phones")
                  /\ UNCHANGED <<contatos, res>>
             ELSE /\ contatos' = transaction(FALSE, contatos, nextId,
                                             NewRow(r, now))
                  /\ Finish(p, Response(201, "", nextId, <<>>))
                  /\ UNCHANGED loc
  /\ UNCHANGED <<telefones, nextPhoneId, lastCall>>

\* Second statement of the transaction: insert into telefones one row per
\* supplied number, then commit; a rejected statement rolls back.
CreatePhones(p, failed) ==
  /\ pc[p] = "create_phones"
  /\ LET tx == Get(loc[p].tx) IN
       /\ contatos' = transaction(failed, contatos, tx.id, tx.row)
       /\ IF failed
          THEN /\ Finish(p, CreateCatch(StatementError))
               /\ UNCHANGED <<telefones, nextPhoneId>>
          ELSE /\ telefones' = InsertPhones(telefones, nextPhoneId,
                                            Get(req[p].telefones), tx.id)
               /\ nextPhoneId' = nextPhoneId + Len(Get(req[p].telefones))
               /\ Finish(p, Response(201, "", tx.id, <<>>))
  /\ UNCHANGED <<nextId, now, ops, req, loc, snap, lastCall>>

\* "error" in weather ? { error, message } : { temp, condition, ... }
EmbedWeather(weather) ==
  IF "error" \in DOMAIN weather
  THEN [error |-> weather.error, message |-> weather.message]
  ELSE [temp |-> weather.temp, condition |-> weather.condition,
        suggestion |-> weather.suggestion]

\* Faulty variant: the phones are left out of the formatted contact.
FormatContactNoPhones(contact, weather) ==
  [id |-> contact.id,
   nome |-> contact.row.nome,
   email |-> contact.row.email,
   codigoZip |-> contact.row.codigoZip,
   endereco |-> contact.row.endereco,
   bairro |-> contact.row.bairro,
   cidade |-> contact.row.cidade,
   estado |-> contact.row.estado,
   complemento |-> contact.row.complemento,
   ativo |-> contact.row.ativo,
   createdAt |-> toISOString(contact.row.createdAt),
   updatedAt |-> toISOString(contact.row.updatedAt),
   telefones |-> {},
   weather |-> EmbedWeather(weather)]

FormatContact(contact, weather) ==
  [id |-> contact.id,
   nome |-> contact.row.nome,
   email |-> contact.row.email,
   codigoZip |-> contact.row.codigoZip,
   endereco |-> contact.row.endereco,
   bairro |-> contact.row.bairro,
   cidade |-> contact.row.cidade,
   estado |-> contact.row.estado,
   complemento |-> contact.row.complemento,
   ativo |-> contact.row.ativo,
   createdAt |-> toISOString(contact.row.createdAt),
   updatedAt |-> toISOString(contact.row.updatedAt),
   telefones |-> contact.telefones,
   weather |-> EmbedWeather(weather)]

\* Faulty variant: only a missing contact is reported, ativo is not tested.
NotFoundOnly(existing) == ~IsSome(existing)

\* getWithWeather: if (!contact || !contact.ativo) return CONTACT_NOT_FOUND
NotFoundOrInactive(existing) ==
  ~IsSome(existing) \/ ~Get(existing).row.ativo

\* GET /contacts/:id, first await: repository.findById
GetFind(p, id) ==
  /\ Begin(p, IdRequest("get", id))
  /\ LET existing == findById(id) IN
       /\ loc' = [loc EXCEPT ![p].existing = existing]
       /\ IF NotFoundOrInactive(existing)
          THEN Finish(p, Response(404, "CONTACT_NOT_FOUND", 0, <<>>))
          ELSE Goto(p, "get_weather") /\ UNCHANGED res
  /\ UNCHANGED <<contatos, telefones, nextId, nextPhoneId, now, lastCall>>

\* GET /contacts/:id, second await: weatherService.getWeatherData
GetWeather(p, upstreams) ==
  /\ pc[p] = "get_weather"
  /\ \E u \in upstreams :
       LET weather == getWeatherData(u) IN
         /\ loc' = [loc EXCEPT ![p].weatherCalls = @ + 1,
                                ![p].upstream = <<u>>,
                                ![p].weather = <<weather>>]
         /\ IF weather.thrown
            THEN Finish(p, GetOneCatch(TypeErrorThrown))
            ELSE Finish(p, Response(200, "", req[p].id,
                   <<FormatContact(Get(loc[p].existing), weather.value)>>))
  /\ UNCHANGED <<contatos, telefones, nextId, nextPhoneId, now, ops,
                 req, snap, lastCall>>

\* Faulty variant: any supplied email is checked, the contact's own included.
EmailChangesAlways(input, existing) == IsSome(input.email)

\* update: if (input.email && input.email !== existing.email)
EmailChanges(input, existing) ==
  IsSome(input.email) /\ Get(input.email) # Get(existing).row.email

\* where repository.update goes after a step: the phone deletions, then the
\* phone additions, then return true
AfterFieldUpdate(p) ==
  IF Len(req[p].deletePhoneNumbers) > 0 THEN "upd_ownership"
  ELSE IF Len(req[p].addPhoneNumbers) > 0 THEN "upd_add"
  ELSE "upd_ok"

AfterDeletes(p) ==
  IF Len(req[p].addPhoneNumbers) > 0 THEN "upd_add" ELSE "upd_ok"

UpdateSuccess(p) == Response(200, "", req[p].id, <<>>)

Proceed(p, label) ==
  IF label = "upd_ok" THEN Finish(p, UpdateSuccess(p))
  ELSE Goto(p, label) /\ UNCHANGED res

\* PUT /contacts/:id, first await: repository.findById
UpdFind(p, r) ==
  /\ Begin(p, r)
  /\ LET existing == findById(r.id) IN
       /\ loc' = [loc EXCEPT ![p].existing = existing]
       /\ IF ~IsSome(existing)
          THEN Finish(p, Response(404, "CONTACT_NOT_FOUND", 0, <<>>))
          ELSE /\ Goto(p, IF EmailChanges(r, existing)
                          THEN "upd_exists" ELSE "upd_write")
               /\ UNCHANGED res
  /\ UNCHANGED <<contatos, telefones, nextId, nextPhoneId, now, lastCall>>

\* PUT /contacts/:id: repository.existsByEmail
UpdExists(p) ==
  /\ pc[p] = "upd_exists"
  /\ IF existsByEmail(Get(req[p].email))
     THEN Finish(p, Response(409, "DUPLICATE_EMAIL", 0, <<>>))
     ELSE Goto(p, "upd_write") /\ UNCHANGED res
  /\ UNCHANGED <<contatos, telefones, nextId, nextPhoneId, now, ops,
                 req, loc, snap, lastCall>>

\* repository.update: update contatos set ...contactData, updatedAt where id
UpdWrite(p) ==
  /\ pc[p] = "upd_write"
  /\ LET id == req[p].id
         input == UpdateInput(req[p])
     IN
       IF id \notin DOMAIN contatos
       THEN /\ Finish(p, Response(404, "CONTACT_NOT_FOUND", 0, <<>>))
            /\ UNCHANGED <<contatos, now>>
       ELSE IF IsSome(req[p].email) /\ EmailUniqueViolation(Get(req[p].email), id)
       THEN /\ Finish(p, UpdateCatch(UniqueEmailError))
            /\ UNCHANGED <<contatos, now>>
       ELSE IF IsSome(input.bodyId) /\ Get(input.bodyId) # id
       THEN IF Get(input.bodyId) \in DOMAIN contatos
            THEN /\ Finish(p, UpdateCatch(PrimaryKeyError))
                 /\ UNCHANGED <<contatos, now>>
            ELSE IF PhonesOf(telefones, id) # {}
            THEN /\ Finish(p, UpdateCatch(ForeignKeyError))
                 /\ UNCHANGED <<contatos, now>>
            ELSE /\ IsSome(req[p].email) => ~PendingEmail(Get(req[p].email), p)
                 /\ contatos' = Rekey(contatos, id, Get(input.bodyId),
                                      SetFields(contatos[id], input, now))
                 /\ now' = now + 1
                 /\ Proceed(p, AfterFieldUpdate(p))
       ELSE /\ IsSome(req[p].email) => ~PendingEmail(Get(req[p].email), p)
            /\ contatos' = [contatos EXCEPT ![id] = SetFields(@, input, now)]
            /\ now' = now + 1
            /\ Proceed(p, AfterFieldUpdate(p))
  /\ UNCHANGED <<telefones, nextId, nextPhoneId, ops, req, loc, snap, lastCall>>

\* repository.update: select the phones owned by id, keep the named ones
UpdOwnership(p) ==
  /\ pc[p] = "upd_ownership"
  /\ LET validPhoneIds == PhonesOf(telefones, req[p].id)
         toDelete == FilterSeq(req[p].deletePhoneNumbers, validPhoneIds)
     IN  /\ loc' = [loc EXCEPT ![p].toDelete = toDelete]
         /\ Proceed(p, IF Len(toDelete) > 0 THEN "upd_delete" ELSE AfterDeletes(p))
  /\ UNCHANGED <<contatos, telefones, nextId, nextPhoneId, now, ops,
                 req, snap, lastCall>>

\* repository.update: one iteration of for (const phoneId of toDelete); a
\* statement the database rejects throws out of the loop and of update.
UpdDelete(p, failed) ==
  /\ pc[p] = "upd_delete"
  /\ IF failed
     THEN /\ Finish(p, UpdateCatch(StatementError))
          /\ UNCHANGED <<telefones, loc>>
     ELSE /\ telefones' = DeletePhone(telefones, Head(loc[p].toDelete))
          /\ loc' = [loc EXCEPT ![p].toDelete = Tail(@)]
          /\ Proceed(p, IF Len(loc[p].toDelete) > 1 THEN "upd_delete"
                        ELSE AfterDeletes(p))
  /\ UNCHANGED <<contatos, nextId, nextPhoneId, now, ops, req, snap, lastCall>>

\* Faulty variant: the update runs in a transaction, a rejected insert putting
\* the tables back as they were when the request began.
UpdAddRollsBack(p, failed) ==
  /\ pc[p] = "upd_add"
  /\ IF failed \/ ForeignKeyViolation(contatos, req[p].id)
     THEN /\ Finish(p, UpdateCatch(StatementError))
          /\ contatos' = snap[p].contatos
          /\ telefones' = snap[p].telefones
          /\ UNCHANGED nextPhoneId
     ELSE /\ telefones' = InsertPhones(telefones, nextPhoneId,
                                       req[p].addPhoneNumbers, req[p].id)
          /\ nextPhoneId' = nextPhoneId + Len(req[p].addPhoneNumbers)
          /\ Finish(p, UpdateSuccess(p))
          /\ UNCHANGED contatos
  /\ UNCHANGED <<nextId, now, ops, req, loc, snap, lastCall>>

\* repository.update: insert the added phones; the statement is rejected
\* when the database fails or when no contact has the id any more.
UpdAdd(p, failed) ==
  /\ pc[p] = "upd_add"
  /\ IF failed
     THEN /\ Finish(p, UpdateCatch(StatementError))
          /\ UNCHANGED <<telefones, nextPhoneId>>
     ELSE IF ForeignKeyViolation(contatos, req[p].id)
     THEN /\ Finish(p, UpdateCatch(ForeignKeyError))
          /\ UNCHANGED <<telefones, nextPhoneId>>
     ELSE /\ telefones' = InsertPhones(telefones, nextPhoneId,
                                       req[p].addPhoneNumbers, req[p].id)
          /\ nextPhoneId' = nextPhoneId + Len(req[p].addPhoneNumbers)
          /\ Finish(p, UpdateSuccess(p))
  /\ UNCHANGED <<contatos, nextId, now, ops, req, loc, snap, lastCall>>

\* Faulty variant: the ativo flag of the found contact is not tested.
AlreadyInactiveNever(existing) == FALSE

\* softDelete: if (!existing.ativo) return CONTACT_ALREADY_INACTIVE
AlreadyInactive(existing) == ~Get(existing).row.ativo

\* DELETE /contacts/:id, first await: repository.findById
SdFind(p, id) ==
  /\ Begin(p, IdRequest("softDelete", id))
  /\ LET existing == findById(id) IN
       /\ loc' = [loc EXCEPT ![p].existing = existing]
       /\ IF ~IsSome(existing)
          THEN Finish(p, Response(404, "CONTACT_NOT_FOUND", 0, <<>>))
          ELSE IF AlreadyInactive(existing)
          THEN Finish(p, Response(404, "CONTACT_ALREADY_INACTIVE", 0, <<>>))
          ELSE Goto(p, "sd_write") /\ UNCHANGED res
  /\ UNCHANGED <<contatos, telefones, nextId, nextPhoneId, now, lastCall>>

\* repository.softDelete: update contatos set ativo = false, updatedAt where id
SdWrite(p) ==
  /\ pc[p] = "sd_write"
  /\ LET id == req[p].id IN
       IF id \notin DOMAIN contatos
       THEN /\ Finish(p, Response(404, "CONTACT_NOT_FOUND", 0, <<>>))
            /\ UNCHANGED <<contatos, now>>
       ELSE /\ contatos' = [contatos EXCEPT ![id] = SoftDeleteRow(@, now)]
            /\ now' = now + 1
            /\ Finish(p, Response(200, "", id, <<>>))
  /\ UNCHANGED <<telefones, nextId, nextPhoneId, ops, req, loc, snap, lastCall>>

\* The response is sent; the request's locals are gone.
Return(p) ==
  /\ pc[p] = "done"
  /\ pc' = [pc EXCEPT ![p] = "returned"]
  /\ lastCall' = [op |-> req[p].op, id |-> req[p].id, error |-> res[p].error]
  /\ req' = [req EXCEPT ![p] = NoReq]
  /\ loc' = [loc EXCEPT ![p] = NoLoc]
  /\ res' = [res EXCEPT ![p] = NoRes]
  /\ snap' = [snap EXCEPT ![p] = NoSnap]
  /\ UNCHANGED <<contatos, telefones, nextId, nextPhoneId, now, ops>>

(***************************************************************************)
(* GET /contacts: ContactService.list over repository.list.                *)
(***************************************************************************)
\* Values of a JavaScript number expression that need not be an integer.
Num(n) == [kind |-> "finite", value |-> n]
NaN == [kind |-> "NaN", value |-> 0]
Infinity == [kind |-> "Infinity", value |-> 0]

\* Math.ceil(a / b) for integers a >= 0 and b >= 0
MathCeilDiv(a, b) ==
  IF b = 0 THEN (IF a = 0 THEN NaN ELSE Infinity)
  ELSE Num((a + b - 1) \div b)

\* n < x for an integer n: false against NaN
LessThan(n, x) ==
  CASE x.kind = "finite" -> n < x.value
    [] x.kind = "Infinity" -> TRUE
    [] OTHER -> FALSE

\* Math.min
MathMin(a, b) == IF a <= b THEN a ELSE b

\* Faulty variant: the querystring schema gives ativo no default.
ListQuerySchemaNoDefault(query) == query

\* querystring schema of GET /contacts: ativo defaults to "true"; page and
\* limit are strings of digits turned into numbers.
ListQuerySchema(query) ==
  [query EXCEPT !.ativo = IF IsSome(@) THEN @ ELSE <<"true">>]

\* Faulty variant: the requested limit is used as it is.
EffectiveLimitUncapped(requestedLimit) == requestedLimit

\* const limit = Math.min(requestedLimit, 100)
EffectiveLimit(requestedLimit) == MathMin(requestedLimit, MaxLimit)

\* ContactService.list up to the repository call: page, limit, offset, ativo
ListParams(params) ==
  LET page == IF IsSome(params.page) THEN Get(params.page) ELSE DefaultPage
      requestedLimit ==
        IF IsSome(params.limit) THEN Get(params.limit) ELSE DefaultLimit
      limit == EffectiveLimit(requestedLimit)
  IN  [page |-> page, limit |-> limit, offset |-> (page - 1) * limit,
       search |-> params.search,
       ativo |-> IF IsSome(params.ativo)
                 THEN <<Get(params.ativo) = "true">> ELSE <<>>]

\* Faulty variant: hasNextPage also on the last page.
PaginationNextOnLast(page, limit, totalItems) ==
  LET totalPages == MathCeilDiv(totalItems, limit) IN
    [currentPage |-> page, totalPages |-> totalPages,
     totalItems |-> totalItems, itemsPerPage |-> limit,
     hasNextPage |-> LessThan(page - 1, totalPages), hasPrevPage |-> page > 1]

\* the pagination object of the list result
Pagination(page, limit, totalItems) ==
  LET totalPages == MathCeilDiv(totalItems, limit) IN
    [currentPage |-> page, totalPages |-> totalPages,
     totalItems |-> totalItems, itemsPerPage |-> limit,
     hasNextPage |-> LessThan(page, totalPages), hasPrevPage |-> page > 1]

\* findMany({ with: { telefones: true } }) row, its instants made text
ListItem(cs, tels, id) ==
  [id |-> id, nome |-> cs[id].nome, email |-> cs[id].email,
   codigoZip |-> cs[id].codigoZip, endereco |-> cs[id].endereco,
   bairro |-> cs[id].bairro, cidade |-> cs[id].cidade,
   estado |-> cs[id].estado, complemento |-> cs[id].complemento,
   ativo |-> cs[id].ativo,
   createdAt |-> toISOString(cs[id].createdAt),
   updatedAt |-> toISOString(cs[id].updatedAt),
   telefones |-> {[id |-> ph, numero |-> tels[ph].numero, contatoId |-> id] :
                    ph \in PhonesOf(tels, id)}]

ListResult(contacts, page, limit, totalItems) ==
  [contacts |-> contacts, pagination |-> Pagination(page, limit, totalItems)]

\* Response schema of GET /contacts, applied by the serializer: a phone keeps
\* id and numero; z.number() refuses NaN and Infinity, and the reply is then
\* a serialization error.
ListResponseSchema(result) ==
  IF result.pagination.totalPages.kind # "finite" THEN <<>>
  ELSE <<[result EXCEPT !.contacts =
            [i \in 1..Len(@) |->
               [@[i] EXCEPT !.telefones =
                  {[id |-> t.id, numero |-> t.numero] : t \in @}]]]>>

\* reply.status(200).send(response) for a route request; the value the service
\* returns for a direct call.
ListReply(via, result) ==
  IF via = "service" THEN Response(200, "", 0, <<result>>)
  ELSE IF IsSome(ListResponseSchema(result))
  THEN Response(200, "", 0, ListResponseSchema(result))
  ELSE Response(500, "FST_ERR_RESPONSE_SERIALIZATION", 0, <<>>)

\* catch block of GET /contacts
ListCatch(error) ==
  IF IsSome(error.code) THEN Response(400, "DATABASE_ERROR", 0, <<>>)
  ELSE Response(500, "INTERNAL_SERVER_ERROR", 0, <<>>)

\* list, first statement: select count(*) from contatos where ...
ListCount(p, r) ==
  /\ Begin(p, r)
  /\ LET params == ListParams(IF r.via = "route" THEN ListQuerySchema(r) ELSE r)
         totalItems ==
           Cardinality(ListWhere(contatos, telefones, params.search, params.ativo))
     IN  loc' = [loc EXCEPT ![p].list =
                   <<[params |-> params, totalItems |-> totalItems,
                      filteredIds |-> <<>>]>>]
  /\ Goto(p, "list_ids")
  /\ UNCHANGED <<contatos, telefones, nextId, nextPhoneId, now, res, lastCall>>

\* list, second statement: select id ... order by created_at limit offset.
\* PostgreSQL rejects a negative OFFSET or LIMIT.  No id: the result is empty.
ListIds(p) ==
  /\ pc[p] = "list_ids"
  /\ LET l == Get(loc[p].list)
         params == l.params
         filteredIds ==
           LimitOffset(
             OrderByCreatedAt(contatos,
               ListWhere(contatos, telefones, params.search, params.ativo)),
             params.limit, params.offset)
     IN  IF params.offset < 0 \/ params.limit < 0
         THEN /\ Finish(p, ListCatch(StatementError))
              /\ UNCHANGED loc
         ELSE IF Len(filteredIds) = 0
         THEN /\ Finish(p, ListReply(req[p].via,
                   ListResult(<<>>, params.page, params.limit, l.totalItems)))
              /\ UNCHANGED loc
         ELSE /\ loc' = [loc EXCEPT ![p].list =
                           <<[l EXCEPT !.filteredIds = filteredIds]>>]
              /\ Goto(p, "list_items")
              /\ UNCHANGED res
  /\ UNCHANGED <<contatos, telefones, nextId, nextPhoneId, now, ops,
                 req, snap, lastCall>>

\* list, third statement: findMany where id in filteredIds order by created_at
ListItems(p) ==
  /\ pc[p] = "list_items"
  /\ LET l == Get(loc[p].list)
         ids == SeqToSet(l.filteredIds) \cap DOMAIN contatos
         items == OrderByCreatedAt(contatos, ids)
         contacts == [i \in 1..Len(items) |->
                        ListItem(contatos, telefones, items[i])]
     IN  Finish(p, ListReply(req[p].via,
           ListResult(contacts, l.params.page, l.params.limit, l.totalItems)))
  /\ UNCHANGED <<contatos, telefones, nextId, nextPhoneId, now, ops,
                 req, loc, snap, lastCall>>

\* One step of list request p, its query drawn from lists.
ListStep(p, lists) ==
  \/ \E r \in lists : ListCount(p, r)
  \/ ListIds(p)
  \/ ListItems(p)

\* One step of request p, its inputs drawn from the given sets; faults tells
\* whether the database may reject a phone statement of an update.
Step(p, creates, updates, upstreams, lists, faults) ==
  \/ ListStep(p, lists)
  \/ \E r \in creates : Create(p, r)
  \/ \E failed \in BOOLEAN : CreatePhones(p, failed)
  \/ \E id \in ContactIds : GetFind(p, id)
  \/ GetWeather(p, upstreams)
  \/ \E r \in updates : UpdFind(p, r)
  \/ UpdExists(p)
  \/ UpdWrite(p)
  \/ UpdOwnership(p)
  \/ \E failed \in faults : UpdDelete(p, failed)
  \/ \E failed \in faults : UpdAdd(p, failed)
  \/ \E id \in ContactIds : SdFind(p, id)
  \/ SdWrite(p)
  \/ Return(p)

\* Requests served one after the other: no other request is in flight.
Alone(p) == \A q \in Procs \ {p} : pc[q] \in {"idle", "returned"}

\* GET /contacts as the tests issue it next to the other requests: the first
\* page of the active contacts, or the inactive ones one per page.
ListQuery(ativo, limit) ==
  [NoReq EXCEPT !.op = "list", !.ativo = ativo, !.limit = limit]

SeqListInputs == {ListQuery(<<>>, <<>>), ListQuery(<<"false">>, <<1>>)}

\* The database answers every phone statement of an update.
NoFaults == {FALSE}

SeqNext ==
  \E p \in Procs :
    Alone(p) /\ Step(p, CreateInputs, UpdateInputs, Upstreams, SeqListInputs,
                     NoFaults)

SeqSpec == Init /\ [][SeqNext]_vars

\* Requests interleaving between their awaits, the database rejecting a
\* phone statement of an update or not.  The inputs are a part of the
\* sequential ones: an update changes the email or not, and either leaves the
\* phones alone or deletes phones 1 and 2 and adds one.
RaceCreateInputs ==
  {r \in CreateInputs : r.telefones \in {<<>>, <<<<NumeroText(1)>>>>}}

RaceUpdateInputs ==
  {r \in UpdateInputs :
     /\ r.cidade = <<>>
     /\ \/ r.addPhoneNumbers = <<>> /\ r.deletePhoneNumbers = <<>>
        \/ r.addPhoneNumbers = <<NumeroText(1)>>
           /\ r.deletePhoneNumbers = <<1, 2>>}

RaceUpstreams ==
  {u \in Upstreams : u.net = "fail" \/ (u.valid_key /\ IsSome(u.results))}

RaceListInputs == {ListQuery(<<>>, <<>>), ListQuery(<<>>, <<1>>)}

\* An id no create of the run generates.
ForeignId == MaxContacts + 1

\* Direct ContactService.update calls whose input carries id, a key of
\* Partial<ContactInsert>, and that add a phone or not.
ReKeyUpdates ==
  {[IdRequest("update", id) EXCEPT !.via = "service",
                                   !.bodyId = <<ForeignId>>,
                                   !.addPhoneNumbers = add] :
     id \in ContactIds, add \in {<<>>, <<NumeroText(1)>>}}

Next ==
  \E p \in Procs :
    Step(p, RaceCreateInputs, RaceUpdateInputs \cup ReKeyUpdates, RaceUpstreams,
         RaceListInputs,
         BOOLEAN)

Spec == Init /\ [][Next]_vars

\* Requests one at a time, an update either a PUT /contacts/:id or a direct
\* call of ContactService.update with an UpdateContactInput, which, being
\* Partial<ContactInsert>, may carry ativo, createdAt and id.
ActiveFlagUpdates ==
  {[IdRequest("update", id) EXCEPT !.via = via, !.ativo = <<ativo>>] :
     id \in ContactIds, via \in {"route", "service"}, ativo \in BOOLEAN}

\* Updates whose input carries createdAt (an instant before every other) or
\* id, two more keys of Partial<ContactInsert>; one of them adds a phone.
KeyUpdates ==
  {[IdRequest("update", id) EXCEPT !.via = via, !.createdAt = <<0>>] :
     id \in ContactIds, via \in {"route", "service"}}
  \cup {[IdRequest("update", id) EXCEPT !.via = via, !.bodyId = <<ForeignId>>,
                                        !.addPhoneNumbers = add] :
           id \in ContactIds, via \in {"route", "service"},
           add \in {<<>>, <<NumeroText(1)>>}}

ServiceNext ==
  \E p \in Procs :
    Alone(p) /\ Step(p, RaceCreateInputs,
                     RaceUpdateInputs \cup ActiveFlagUpdates \cup KeyUpdates,
                     RaceUpstreams,
                     SeqListInputs, NoFaults)

ServiceSpec == Init /\ [][ServiceNext]_vars

(***************************************************************************)
(* Calls of the weather client alone, the upstream answering with a        *)
(* temperature and a description.                                          *)
(***************************************************************************)
AdvisorTemps == (ColdMax - 1)..(HotMin + 1)

AdvisorConditions ==
  { <<>>,
    <<"C", "h", "u", "v", "a">>,
    <<"C", "H", "U", "V", "A">>,
    <<"G", "a", "r", "o", "a">>,
    <<"C", "h", "u", "v", "i", "s", "c", "o">>,
    <<"P", "r", "e", "c", "i", "p", "i", "t", "a", "ç", "ã", "o">>,
    <<"S", "o", "l">>,
    <<"E", "n", "s", "o", "l", "a", "r", "a", "d", "o">>,
    <<"T", "e", "m", "p", "o", " ", "l", "i", "m", "p", "o">>,
    <<"T", "e", "m", "p", "o", " ", "c", "l", "a", "r", "o">>,
    <<"N", "u", "b", "l", "a", "d", "o">>,
    <<"S", "o", "l", " ", "c", "o", "m", " ", "c", "h", "u", "v", "a">>,
    <<"C", "h", "u", "v", "a", "s", " ", "i", "s", "o", "l", "a", "d", "a", "s">> }

AdvisorUpstreams ==
  [net : {"ok"}, ok : {TRUE}, status : {200}, json : {"object"},
   valid_key : {TRUE},
   results : {<<[temp |-> t, description |-> <<c>>]>> :
                t \in AdvisorTemps, c \in AdvisorConditions}]

\* weatherService.getWeatherData(city) called on its own
WeatherCall(p, u) ==
  /\ Begin(p, IdRequest("weather", 0))
  /\ LET weather == getWeatherData(u) IN
       /\ loc' = [loc EXCEPT ![p].weatherCalls = @ + 1,
                              ![p].upstream = <<u>>,
                              ![p].weather = <<weather>>]
       /\ IF weather.thrown
          THEN Finish(p, GetOneCatch(TypeErrorThrown))
          ELSE Finish(p, Response(200, "", 0, <<weather.value>>))
  /\ UNCHANGED <<contatos, telefones, nextId, nextPhoneId, now, lastCall>>

AdvisorNext ==
  \E p \in Procs :
    Alone(p) /\ ((\E u \in AdvisorUpstreams : WeatherCall(p, u)) \/ Return(p))

AdvisorSpec == Init /\ [][AdvisorNext]_vars

(***************************************************************************)
(* List calls over a store drawn from the stores the requests can build.   *)
(***************************************************************************)
\* The text one column of a drawn contact may hold instead of its fixed one.
HotText == <<"A", "b">>

HotFields == {"nome", "email", "endereco", "bairro", "cidade", "estado",
              "codigoZip", "complemento", "telefone"}

\* A drawn contact: which column (or a phone) holds HotText, and its flag.
Profiles(hots) == [hot : hots, ativo : BOOLEAN]

\* Row id of a drawn store of n contacts: created at instant id and, when
\* inactive, soft-deleted at instant n + id.
StoreRow(id, prof, n) ==
  LET base == [NewRow([email |-> <<EmailText(id)>>,
                       cidade |-> <<CityText(1)>>], id)
                 EXCEPT !.ativo = prof.ativo,
                        !.updatedAt = IF prof.ativo THEN id ELSE n + id]
  IN  CASE prof.hot = "nome" -> [base EXCEPT !.nome = HotText]
        [] prof.hot = "email" -> [base EXCEPT !.email = HotText \o <<Digit(id)>>]
        [] prof.hot = "endereco" -> [base EXCEPT !.endereco = HotText]
        [] prof.hot = "bairro" -> [base EXCEPT !.bairro = HotText]
        [] prof.hot = "cidade" -> [base EXCEPT !.cidade = HotText]
        [] prof.hot = "estado" -> [base EXCEPT !.estado = HotText]
        [] prof.hot = "codigoZip" -> [base EXCEPT !.codigoZip = HotText]
        [] prof.hot = "complemento" -> [base EXCEPT !.complemento = <<HotText>>]
        [] OTHER -> base

\* The store of the contacts profs; a "telefone" contact owns one phone.
StoreOf(profs) ==
  [contatos |-> [id \in 1..Len(profs) |-> StoreRow(id, profs[id], Len(profs))],
   telefones |-> [ph \in {id \in 1..Len(profs) : profs[id].hot = "telefone"} |->
                    [numero |-> HotText, contatoId |-> ph]]]

ListStores ==
  {StoreOf(profs) : profs \in SeqsUpTo(Profiles({"none"}), MaxListContacts)}
    \cup {StoreOf(profs) :
            profs \in SeqsUpTo(Profiles(HotFields \cup {"none"}),
                               MaxSearchContacts)}

SearchTerms == {<<>>, <<"a", "b">>, <<"B">>, <<"_">>, <<"z", "z">>}

ListLimits == {0, 1, 2, MaxLimit, MaxLimit + 50}

ListQueries(searches, pages, limits) ==
  [op : {"list"}, via : {"route", "service"}, id : {0},
   email : {<<>>}, cidade : {<<>>}, ativo : Opt({"true", "false"}),
   telefones : {<<>>}, addPhoneNumbers : {<<>>}, deletePhoneNumbers : {<<>>},
   search : searches, page : pages, limit : limits,
   createdAt : {<<>>}, bodyId : {<<>>}]

\* A query varies the search term or the page and the limit.
ListInputs ==
  ListQueries(Opt(SearchTerms), {<<>>}, {<<>>})
    \cup ListQueries({<<>>}, Opt(0..MaxPage), Opt(ListLimits))

ListInit ==
  /\ \E st \in ListStores :
       /\ contatos = st.contatos
       /\ telefones = st.telefones
       /\ nextId = Cardinality(DOMAIN st.contatos) + 1
       /\ nextPhoneId = Cardinality(DOMAIN st.contatos) + 1
       /\ now = 2 * Cardinality(DOMAIN st.contatos) + 1
  /\ ops = 0
  /\ pc = [p \in Procs |-> "idle"]
  /\ req = [p \in Procs |-> NoReq]
  /\ loc = [p \in Procs |-> NoLoc]
  /\ res = [p \in Procs |-> NoRes]
  /\ snap = [p \in Procs |-> NoSnap]
  /\ lastCall = NoCall

ListNext ==
  \E p \in 1..MaxListOps : Alone(p) /\ (ListStep(p, ListInputs) \/ Return(p))

ListSpec == ListInit /\ [][ListNext]_vars

(***************************************************************************)
(* The two other implementations of the listing: the earlier repository    *)
(* list and the legacy route handler.  Both first select the contatoId of  *)
(* the phones whose number matches and add `id IN (...)` to the OR only    *)
(* when that list is not empty.                                            *)
(***************************************************************************)
\* select contatoId from telefones where numero ilike pattern
PhoneMatchingIds(tels, search) ==
  {tels[ph].contatoId :
     ph \in {x \in DOMAIN tels : ilike(tels[x].numero, searchPattern(search))}}

\* Faulty variant: with a matching phone anywhere, every contact is kept.
EarlierSearchConditionAnyOwner(cs, tels, id, search) ==
  LET pattern == searchPattern(search) IN
    \/ ilike(cs[id].nome, pattern)
    \/ ilike(cs[id].email, pattern)
    \/ PhoneMatchingIds(tels, search) # {}

\* or(...contactSearchConditions) of the earlier list and the legacy route
EarlierSearchCondition(cs, tels, id, search) ==
  LET pattern == searchPattern(search)
      phoneMatchingIds == PhoneMatchingIds(tels, search)
  IN  \/ ilike(cs[id].nome, pattern)
      \/ ilike(cs[id].email, pattern)
      \/ ilike(cs[id].endereco, pattern)
      \/ ilike(cs[id].bairro, pattern)
      \/ ilike(cs[id].cidade, pattern)
      \/ ilike(cs[id].estado, pattern)
      \/ ilike(cs[id].codigoZip, pattern)
      \/ IsSome(cs[id].complemento) /\ ilike(Get(cs[id].complemento), pattern)
      \/ phoneMatchingIds # {} /\ id \in phoneMatchingIds

EarlierWhere(cs, tels, search, ativo) ==
  {id \in DOMAIN cs :
     /\ IsSome(ativo) => cs[id].ativo = Get(ativo)
     /\ (IsSome(search) /\ Get(search) # <<>>) =>
          EarlierSearchCondition(cs, tels, id, Get(search))}

\* A row of the earlier list's select: the columns, no phones.
EarlierRow(cs, id) ==
  [id |-> id, nome |-> cs[id].nome, email |-> cs[id].email,
   codigoZip |-> cs[id].codigoZip, endereco |-> cs[id].endereco,
   bairro |-> cs[id].bairro, cidade |-> cs[id].cidade,
   estado |-> cs[id].estado, complemento |-> cs[id].complemento,
   ativo |-> cs[id].ativo,
   createdAt |-> cs[id].createdAt, updatedAt |-> cs[id].updatedAt]

\* The earlier repository list: { items, totalItems }, or nothing when the
\* database rejects the statement (negative LIMIT or OFFSET).
EarlierList(cs, tels, params) ==
  LET where == EarlierWhere(cs, tels, params.search, params.ativo)
      ids == LimitOffset(OrderByCreatedAt(cs, where), params.limit, params.offset)
  IN  IF params.offset < 0 \/ params.limit < 0 THEN <<>>
      ELSE <<[items |-> [i \in 1..Len(ids) |-> EarlierRow(cs, ids[i])],
              totalItems |-> Cardinality(where)]>>

\* page, limit and offset of the legacy route, from its parsed query
LegacyParams(query) ==
  LET page == IF IsSome(query.page) THEN Get(query.page) ELSE DefaultPage
      requestedLimit ==
        IF IsSome(query.limit) THEN Get(query.limit) ELSE DefaultLimit
      limit == MathMin(requestedLimit, MaxLimit)
  IN  [page |-> page, limit |-> limit, offset |-> (page - 1) * limit,
       search |-> query.search,
       ativo |-> IF IsSome(query.ativo)
                 THEN <<Get(query.ativo) = "true">> ELSE <<>>]

\* contactsWithPhones of the legacy route: the row, its instants made text,
\* and the { id, numero } of the phones selected for the page's contacts
LegacyItem(cs, tels, id) ==
  [id |-> id, nome |-> cs[id].nome, email |-> cs[id].email,
   codigoZip |-> cs[id].codigoZip, endereco |-> cs[id].endereco,
   bairro |-> cs[id].bairro, cidade |-> cs[id].cidade,
   estado |-> cs[id].estado, complemento |-> cs[id].complemento,
   ativo |-> cs[id].ativo,
   createdAt |-> toISOString(cs[id].createdAt),
   updatedAt |-> toISOString(cs[id].updatedAt),
   telefones |-> {[id |-> ph, numero |-> tels[ph].numero] :
                    ph \in PhonesOf(tels, id)}]

\* The legacy GET /contacts handler, from the raw query to the reply.
LegacyReply(cs, tels, query) ==
  LET params == LegacyParams(ListQuerySchema(query))
      where == EarlierWhere(cs, tels, params.search, params.ativo)
      ids == LimitOffset(OrderByCreatedAt(cs, where), params.limit, params.offset)
      contacts == [i \in 1..Len(ids) |-> LegacyItem(cs, tels, ids[i])]
  IN  IF params.offset < 0 \/ params.limit < 0 THEN ListCatch(StatementError)
      ELSE ListReply("route",
             ListResult(contacts, params.page, params.limit, Cardinality(where)))

(***************************************************************************)
(* Properties.                                                             *)
(***************************************************************************)
Done(p, op) == pc[p] = "done" /\ req[p].op = op

StoreUnchanged(p) ==
  contatos = snap[p].contatos /\ telefones = snap[p].telefones

\* The contact the request names, as it was when the request began.
Before(p) == snap[p].contatos[req[p].id]
ExistedBefore(p) == req[p].id \in DOMAIN snap[p].contatos

\* C1: in every reachable state, under any interleaving of create, update and
\* softDelete, no two contacts (active or inactive) hold the same email.
C1_EmailUnique ==
  \A a, b \in DOMAIN contatos : a # b => contatos[a].email # contatos[b].email

\* An update passed the service's uniqueness check, a concurrent request took
\* the email, and the write was refused by the unique index.
C1_Witness ==
  \E p \in Procs :
    /\ Done(p, "update")
    /\ res[p].status = 500
    /\ \E c \in DOMAIN contatos :
         c # req[p].id /\ <<contatos[c].email>> = req[p].email

\* C2: softDelete twice in sequence on the same active contact: the first call
\* succeeds, sets ativo to false and advances updatedAt; the second returns
\* CONTACT_ALREADY_INACTIVE and changes nothing.
C2_SoftDeleteTwice ==
  \A p \in Procs :
    (Done(p, "softDelete") /\ ExistedBefore(p)) =>
      /\ Before(p).ativo =>
           /\ res[p].status = 200 /\ res[p].error = ""
           /\ ~contatos[req[p].id].ativo
           /\ contatos[req[p].id].updatedAt > Before(p).updatedAt
      /\ lastCall = [op |-> "softDelete", id |-> req[p].id, error |-> ""] =>
           /\ res[p].error = "CONTACT_ALREADY_INACTIVE"
           /\ StoreUnchanged(p)
           /\ ~contatos[req[p].id].ativo

C2_Witness ==
  \E p \in Procs :
    /\ Done(p, "softDelete")
    /\ lastCall = [op |-> "softDelete", id |-> req[p].id, error |-> ""]
    /\ res[p].error = "CONTACT_ALREADY_INACTIVE"

\* C3: getWithWeather on a missing or inactive id returns CONTACT_NOT_FOUND
\* without calling the weather provider; the provider is only ever called
\* for a contact that was found and found active.
C3_NoWeatherForNotFound ==
  \A p \in Procs :
    req[p].op = "get" =>
      LET absent == ~ExistedBefore(p) \/ ~Before(p).ativo IN
        /\ (pc[p] = "get_weather" \/ loc[p].weatherCalls > 0) => ~absent
        /\ (pc[p] = "done" /\ absent) =>
             /\ res[p].error = "CONTACT_NOT_FOUND"
             /\ loc[p].weatherCalls = 0

C3_Witness ==
  \E p \in Procs :
    /\ Done(p, "get")
    /\ ExistedBefore(p) /\ ~Before(p).ativo
    /\ res[p].error = "CONTACT_NOT_FOUND"
    /\ loc[p].weatherCalls = 0

WeatherErrorKinds ==
  {"WEATHER_API_ERROR", "CITY_NOT_FOUND", "WEATHER_SERVICE_UNAVAILABLE"}

\* C4: for an active contact and every outcome of the weather lookup,
\* getWithWeather returns success with the stored fields and phones and the
\* lookup outcome (reading or error) under weather.
C4_WeatherEmbedded ==
  \A p \in Procs :
    (Done(p, "get") /\ ExistedBefore(p) /\ Before(p).ativo) =>
      /\ res[p].status = 200 /\ res[p].error = ""
      /\ IsSome(res[p].body)
      /\ LET c == Get(res[p].body)
             u == Get(loc[p].upstream)
         IN  /\ c.id = req[p].id
             /\ c.email = Before(p).email
             /\ c.cidade = Before(p).cidade
             /\ c.ativo
             /\ c.createdAt = <<"ISO", Before(p).createdAt>>
             /\ c.updatedAt = <<"ISO", Before(p).updatedAt>>
             /\ c.telefones =
                  {[id |-> ph, numero |-> snap[p].telefones[ph].numero] :
                     ph \in {x \in DOMAIN snap[p].telefones :
                               snap[p].telefones[x].contatoId = req[p].id}}
             /\ IF "error" \in DOMAIN c.weather
                THEN c.weather.error \in WeatherErrorKinds
                ELSE /\ c.weather.temp = Get(u.results).temp
                     /\ <<c.weather.condition>> = Get(u.results).description

\* A contact with a phone is returned with a weather failure embedded.
C4_Witness ==
  \E p \in Procs :
    /\ Done(p, "get")
    /\ res[p].status = 200
    /\ Get(res[p].body).telefones # {}
    /\ "error" \in DOMAIN Get(res[p].body).weather
    /\ Get(res[p].body).weather.error = "WEATHER_SERVICE_UNAVAILABLE"

\* C5: getWeatherData never raises: whatever the upstream does, the call
\* resolves to a reading or to an error of one of the three kinds.
C5_WeatherNeverThrows ==
  \A p \in Procs :
    loc[p].weatherCalls > 0 =>
      LET w == Get(loc[p].weather) IN
        /\ ~w.thrown
        /\ \/ /\ DOMAIN w.value = {"error", "message"}
              /\ w.value.error \in WeatherErrorKinds
           \/ DOMAIN w.value = {"temp", "condition", "suggestion"}

\* The body parses, valid_key is true and results is missing.
C5_Witness ==
  \E p \in Procs :
    /\ loc[p].weatherCalls > 0
    /\ LET u == Get(loc[p].upstream) IN
         u.ok /\ u.json = "object" /\ u.valid_key /\ ~IsSome(u.results)
    /\ ~Get(loc[p].weather).thrown
    /\ Get(loc[p].weather).value.error = "WEATHER_SERVICE_UNAVAILABLE"

\* C6: the failure mapping of getWeatherData: a non-successful status gives
\* WEATHER_API_ERROR with the status in the message; a successful response
\* whose body parses but carries no result for the city gives CITY_NOT_FOUND;
\* a network failure or a body parse failure gives
\* WEATHER_SERVICE_UNAVAILABLE.
C6_FailureMapping ==
  \A p \in Procs :
    loc[p].weatherCalls > 0 =>
      LET u == Get(loc[p].upstream)
          w == Get(loc[p].weather)
          IsError(kind) ==
            ~w.thrown /\ "error" \in DOMAIN w.value /\ w.value.error = kind
      IN  /\ (u.net = "ok" /\ ~u.ok) =>
                /\ IsError("WEATHER_API_ERROR")
                /\ w.value.message[2] = u.status
          /\ (u.net = "ok" /\ u.ok /\ u.json = "object" /\ ~IsSome(u.results)) =>
                IsError("CITY_NOT_FOUND")
          /\ (u.net = "fail" \/ (u.net = "ok" /\ u.ok /\ u.json = "throws")) =>
                IsError("WEATHER_SERVICE_UNAVAILABLE")

\* C7: a create whose email is already held by a contact, active or
\* soft-deleted, ends in DUPLICATE_EMAIL and leaves both tables as they were.
C7_DuplicateCreate ==
  \A p \in Procs :
    (/\ Done(p, "create")
     /\ \E c \in DOMAIN snap[p].contatos :
          <<snap[p].contatos[c].email>> = req[p].email) =>
      /\ res[p].status = 409
      /\ res[p].error = "DUPLICATE_EMAIL"
      /\ StoreUnchanged(p)

\* The holder of the email is soft-deleted and the create carries phones.
C7_Witness ==
  \E p \in Procs :
    /\ Done(p, "create")
    /\ res[p].error = "DUPLICATE_EMAIL"
    /\ IsSome(req[p].telefones) /\ Len(Get(req[p].telefones)) > 0
    /\ \E c \in DOMAIN contatos :
         <<contatos[c].email>> = req[p].email /\ ~contatos[c].ativo

\* The new email of an update: supplied, not the contact's current one, and
\* held by some contact when the update began.
EmailConflict(p) ==
  /\ IsSome(req[p].email)
  /\ Get(req[p].email) # Before(p).email
  /\ \E c \in DOMAIN snap[p].contatos :
       snap[p].contatos[c].email = Get(req[p].email)

\* C8: an update of an existing contact returns DUPLICATE_EMAIL exactly when
\* the email is supplied, differs from the current one and is held by some
\* contact, and then nothing in the store changes; an update that supplies
\* the contact's own email is applied.
C8_DuplicateUpdate ==
  \A p \in Procs :
    (Done(p, "update") /\ ExistedBefore(p)) =>
      /\ res[p].error = "DUPLICATE_EMAIL" <=> EmailConflict(p)
      /\ EmailConflict(p) => StoreUnchanged(p)
      /\ req[p].email = <<Before(p).email>> =>
           /\ res[p].status = 200 /\ res[p].error = ""
           /\ contatos[req[p].id].email = Before(p).email
           /\ contatos[req[p].id].updatedAt > Before(p).updatedAt
           /\ IsSome(req[p].cidade) =>
                contatos[req[p].id].cidade = Get(req[p].cidade)

\* A conflicting update that also carries a field and phone changes.
C8_Witness ==
  \E p \in Procs :
    /\ Done(p, "update") /\ ExistedBefore(p)
    /\ EmailConflict(p)
    /\ res[p].error = "DUPLICATE_EMAIL"
    /\ IsSome(req[p].cidade)
    /\ Len(req[p].addPhoneNumbers) > 0
    /\ \E ph \in PhonesOf(telefones, req[p].id) :
         ph \in SeqToSet(req[p].deletePhoneNumbers)

\* The phones the update's delete list names that are not the contact's own.
NamesForeign(p) ==
  \E ph \in SeqToSet(req[p].deletePhoneNumbers) :
    ph \notin PhonesOf(snap[p].telefones, req[p].id)

\* C9: an update of A whose deletePhoneNumbers names a phone of another
\* contact, or the id of no phone, succeeds; exactly the named phones that A
\* owns are removed, A's other phones and every phone of another contact are
\* unchanged.
C9_DeleteOwnedOnly ==
  \A p \in Procs :
    (Done(p, "update") /\ ExistedBefore(p) /\ ~EmailConflict(p)) =>
      LET id == req[p].id
          old == snap[p].telefones
          named == SeqToSet(req[p].deletePhoneNumbers)
          removed == {ph \in DOMAIN old : old[ph].contatoId = id /\ ph \in named}
          added == DOMAIN telefones \ DOMAIN old
      IN  /\ NamesForeign(p) => res[p].status = 200
          /\ \A ph \in DOMAIN old :
               IF ph \in removed THEN ph \notin DOMAIN telefones
               ELSE ph \in DOMAIN telefones /\ telefones[ph] = old[ph]
          /\ Cardinality(added) = Len(req[p].addPhoneNumbers)
          /\ \A ph \in added : telefones[ph].contatoId = id

\* The delete list names one phone of A and one phone of another contact,
\* and the other contact still has a phone afterwards.
C9_Witness ==
  \E p \in Procs :
    /\ Done(p, "update") /\ res[p].status = 200
    /\ LET id == req[p].id
           old == snap[p].telefones
           named == SeqToSet(req[p].deletePhoneNumbers)
       IN  /\ \E ph \in named : ph \in DOMAIN old /\ old[ph].contatoId # id
           /\ \E ph \in named : ph \in DOMAIN old /\ old[ph].contatoId = id
           /\ \E ph \in DOMAIN telefones : telefones[ph].contatoId # id

\* Occurrences of x in the sequence s.
CountIn(s, x) == Cardinality({i \in 1..Len(s) : s[i] = x})

\* C10: after a create with N phone numbers (N = 0 for an absent or empty
\* list), fetching the contact by the returned id yields exactly those N
\* numbers, all owned by the new contact.
C10_CreateRoundTrip ==
  \A p \in Procs :
    (Done(p, "create") /\ res[p].status = 201) =>
      LET given == IF IsSome(req[p].telefones) THEN Get(req[p].telefones) ELSE <<>>
          fetched == findById(res[p].id)
      IN  /\ IsSome(fetched)
          /\ Cardinality(Get(fetched).telefones) = Len(given)
          /\ \A n \in Numeros :
               Cardinality({t \in Get(fetched).telefones : t.numero = n})
                 = CountIn(given, n)
          /\ \A t \in Get(fetched).telefones :
               telefones[t.id].contatoId = res[p].id

\* Two phones with different numbers were created with the contact.
C10_Witness ==
  \E p \in Procs :
    /\ Done(p, "create") /\ res[p].status = 201
    /\ IsSome(req[p].telefones)
    /\ Len(Get(req[p].telefones)) = 2
    /\ Get(req[p].telefones)[1] # Get(req[p].telefones)[2]
    /\ Cardinality(PhonesOf(telefones, res[p].id)) = 2

\* The numbers of the phones owned by id are, with multiplicity, those of given.
OwnsExactly(tels, id, given) ==
  /\ Cardinality(PhonesOf(tels, id)) = Len(given)
  /\ \A n \in Numeros :
       Cardinality({ph \in PhonesOf(tels, id) : tels[ph].numero = n})
         = CountIn(given, n)

\* C11: create is all-or-nothing.  A step that makes a contact appear in the
\* table is the successful end of a create and makes all the phones supplied
\* to that create appear with it, under any interleaving; and the step in
\* which a create fails adds no contact: the row its transaction inserted is
\* absent from the table.
C11_CreateAtomic ==
  [][/\ \A id \in ContactIds :
          (id \notin DOMAIN contatos /\ id \in DOMAIN contatos') =>
            \E p \in Procs :
              /\ req'[p].op = "create" /\ pc'[p] = "done"
              /\ res'[p].status = 201 /\ res'[p].id = id
              /\ OwnsExactly(telefones', id,
                             IF IsSome(req'[p].telefones)
                             THEN Get(req'[p].telefones) ELSE <<>>)
     /\ \A p \in Procs :
          (pc[p] # "done" /\ pc'[p] = "done" /\ req'[p].op = "create"
             /\ res'[p].status # 201) =>
            /\ DOMAIN contatos' = DOMAIN contatos
            /\ IsSome(loc'[p].tx) =>
                 /\ Get(loc'[p].tx).id \notin DOMAIN contatos'
                 /\ PhonesOf(telefones', Get(loc'[p].tx).id) = {}]_vars

\* The phone insert of a create failed after another request had run to its
\* end inside the transaction, and the contact is not in the table.
C11_Witness ==
  \E p \in Procs :
    /\ Done(p, "create") /\ res[p].status = 500
    /\ IsSome(loc[p].tx)
    /\ Get(loc[p].tx).id \notin DOMAIN contatos
    /\ \E q \in Procs : q > p /\ pc[q] \in {"done", "returned"}

\* The list result of a finished list call.
Listed(p) == Done(p, "list") /\ res[p].status = 200
ListBody(p) == Get(res[p].body)
ListedContacts(p) == SeqToSet(ListBody(p).contacts)

\* C12 as stated: a list call without an active filter returns only active
\* contacts, and a list result holds an inactive contact only when the caller
\* asked with ativo = "false".
C12_ServiceDefaultsToActive ==
  \A p \in Procs :
    Listed(p) =>
      /\ req[p].ativo = <<>> => \A c \in ListedContacts(p) : c.ativo
      /\ (\E c \in ListedContacts(p) : ~c.ativo) => req[p].ativo = <<"false">>

\* C12, amended: a list request through the route without ativo returns only
\* active contacts (the querystring schema supplies "true"); a list result
\* holds an inactive contact only when the caller asked with ativo = "false"
\* or called ContactService.list directly without ativo, which filters on
\* nothing and returns every contact, active or not.
C12_RouteDefaultsToActive ==
  \A p \in Procs :
    Listed(p) =>
      /\ (req[p].via = "route" /\ req[p].ativo = <<>>) =>
           \A c \in ListedContacts(p) : c.ativo
      /\ (\E c \in ListedContacts(p) : ~c.ativo) =>
           \/ req[p].ativo = <<"false">>
           \/ req[p].via = "service" /\ req[p].ativo = <<>>
      /\ (req[p].via = "service" /\ req[p].ativo = <<>> /\ req[p].search = <<>>)
           => ListBody(p).pagination.totalItems = Cardinality(DOMAIN contatos)

\* A route request without ativo listed the active contact of a store that
\* also holds an inactive one.
C12_Witness ==
  \E p \in Procs :
    /\ Listed(p) /\ req[p].via = "route" /\ req[p].ativo = <<>>
    /\ ListedContacts(p) # {}
    /\ \E c \in DOMAIN contatos : ~contatos[c].ativo

\* term occurs in text, letters compared without regard to case.
SubstringCI(term, text) == Includes(ToLowerCase(text), ToLowerCase(term))

\* The contacts the stated predicate selects for a search and an active
\* filter, as the store received them.
StatedSelection(search, ativo) ==
  {id \in DOMAIN contatos :
     /\ ativo = <<>> \/ Get(ativo) = contatos[id].ativo
     /\ \/ search = <<>>
        \/ Get(search) = <<>>
        \/ \E text \in {contatos[id].nome, contatos[id].email,
                        contatos[id].endereco, contatos[id].bairro,
                        contatos[id].cidade, contatos[id].estado,
                        contatos[id].codigoZip} :
             SubstringCI(Get(search), text)
        \/ /\ IsSome(contatos[id].complemento)
           /\ SubstringCI(Get(search), Get(contatos[id].complemento))
        \/ \E ph \in PhonesOf(telefones, id) :
             SubstringCI(Get(search), telefones[ph].numero)}

\* C13: the store's list selects a contact exactly when the active filter is
\* absent or equals its flag and the search term is absent, empty, or a
\* case-insensitive substring of one of its eight text columns (a null
\* complemento never matching) or of the number of a phone it owns.  Read
\* off a list call whose page holds the whole selection.
C13_SearchPredicate ==
  \A p \in Procs :
    (Listed(p) /\ req[p].page = <<>> /\ req[p].limit = <<>>) =>
      LET params == Get(loc[p].list).params
          stated == StatedSelection(params.search, params.ativo)
      IN  /\ {c.id : c \in ListedContacts(p)} = stated
          /\ ListBody(p).pagination.totalItems = Cardinality(stated)

\* The stated predicate away from the pattern characters % and _ of LIKE.
C13_PlainTerms ==
  \A p \in Procs :
    (Listed(p) /\ req[p].page = <<>> /\ req[p].limit = <<>>
       /\ req[p].search # <<<<"_">>>>) =>
      {c.id : c \in ListedContacts(p)}
        = StatedSelection(Get(loc[p].list).params.search,
                          Get(loc[p].list).params.ativo)

\* The contacts of S created before id: the position of id, counted from
\* zero, in the createdAt ascending order of S.
Rank(id, S) ==
  Cardinality({b \in S : contatos[b].createdAt < contatos[id].createdAt})

IsCeilOf(k, a, b) == k * b >= a /\ (k - 1) * b < a

\* C15 as stated: in every list result totalItems counts the contacts matching
\* the filter, totalPages = ceil(totalItems / itemsPerPage), hasNextPage holds
\* exactly when currentPage < totalPages, hasPrevPage exactly when
\* currentPage > 1; with no match totalPages is 0 and both flags are false;
\* on a page past the end hasNextPage is false and hasPrevPage is true.
C15_PaginationMetadata ==
  \A p \in Procs :
    Listed(p) =>
      LET pg == ListBody(p).pagination
          params == Get(loc[p].list).params
      IN  /\ pg.totalItems = Cardinality(ListWhere(contatos, telefones,
                                                   params.search, params.ativo))
          /\ pg.totalPages.kind = "finite"
          /\ pg.itemsPerPage >= 1
          /\ IsCeilOf(pg.totalPages.value, pg.totalItems, pg.itemsPerPage)
          /\ pg.hasNextPage <=> pg.currentPage < pg.totalPages.value
          /\ pg.hasPrevPage <=> pg.currentPage > 1
          /\ pg.totalItems = 0 =>
               pg.totalPages = Num(0) /\ ~pg.hasNextPage /\ ~pg.hasPrevPage
          /\ pg.currentPage > pg.totalPages.value =>
               ~pg.hasNextPage /\ (pg.totalItems > 0 => pg.hasPrevPage)

\* C15, amended: in every list result with itemsPerPage >= 1, totalItems
\* counts the contacts matching the filter, totalPages is
\* ceil(totalItems / itemsPerPage), hasNextPage holds exactly when
\* currentPage < totalPages and hasPrevPage exactly when currentPage > 1.
\* With no match totalPages is 0 and hasNextPage is false, while hasPrevPage
\* is still currentPage > 1 (true on page 2 of an empty result).  With
\* itemsPerPage = 0 the service result has totalPages NaN (no match) or
\* Infinity and no contacts, and the route answers 500.
C15_PaginationMetadataFromLimitOne ==
  \A p \in Procs :
    /\ Listed(p) =>
         LET pg == ListBody(p).pagination
             params == Get(loc[p].list).params
         IN  /\ pg.totalItems = Cardinality(ListWhere(contatos, telefones,
                                              params.search, params.ativo))
             /\ pg.hasPrevPage <=> pg.currentPage > 1
             /\ pg.itemsPerPage >= 1 =>
                  /\ pg.totalPages.kind = "finite"
                  /\ IsCeilOf(pg.totalPages.value, pg.totalItems,
                              pg.itemsPerPage)
                  /\ pg.hasNextPage <=> pg.currentPage < pg.totalPages.value
                  /\ pg.totalItems = 0 =>
                       pg.totalPages = Num(0) /\ ~pg.hasNextPage
                  /\ pg.currentPage > pg.totalPages.value =>
                       ~pg.hasNextPage /\ (pg.totalItems > 0 => pg.hasPrevPage)
             /\ pg.itemsPerPage = 0 =>
                  /\ req[p].via = "service"
                  /\ ListBody(p).contacts = <<>>
                  /\ pg.totalPages = IF pg.totalItems = 0 THEN NaN ELSE Infinity
    /\ (Done(p, "list") /\ req[p].via = "route" /\ req[p].limit = <<0>>) =>
         res[p].status = 500

\* A list call got the last page of a selection of three with limit 2, where
\* hasNextPage is false and hasPrevPage is true.
C15_Witness ==
  \E p \in Procs :
    /\ Listed(p)
    /\ ListBody(p).pagination.totalItems = 3
    /\ ListBody(p).pagination.itemsPerPage = 2
    /\ ListBody(p).pagination.currentPage = 2
    /\ ListBody(p).pagination.totalPages = Num(2)
    /\ ~ListBody(p).pagination.hasNextPage
    /\ ListBody(p).pagination.hasPrevPage

\* C16: list uses page 1 when no page is given and limit 10 when no limit is
\* given; the effective itemsPerPage is the requested limit when that is at
\* most 100 and 100 otherwise, so that no list result has itemsPerPage above
\* 100 or holds more contacts than itemsPerPage.
C16_DefaultsAndCap ==
  \A p \in Procs :
    Listed(p) =>
      LET pg == ListBody(p).pagination IN
        /\ req[p].page = <<>> => pg.currentPage = 1
        /\ req[p].page # <<>> => pg.currentPage = Get(req[p].page)
        /\ req[p].limit = <<>> => pg.itemsPerPage = 10
        /\ req[p].limit # <<>> =>
             pg.itemsPerPage = IF Get(req[p].limit) <= 100
                               THEN Get(req[p].limit) ELSE 100
        /\ pg.itemsPerPage <= 100
        /\ Len(ListBody(p).contacts) <= pg.itemsPerPage
        /\ Get(loc[p].list).params.offset
             = (pg.currentPage - 1) * pg.itemsPerPage

\* A list call asked for 150 contacts per page and got itemsPerPage 100, on
\* page 1 by default, with the four contacts of the store.
C16_Witness ==
  \E p \in Procs :
    /\ Listed(p)
    /\ req[p].limit = <<150>> /\ req[p].page = <<>>
    /\ ListBody(p).pagination.itemsPerPage = 100
    /\ ListBody(p).pagination.currentPage = 1
    /\ Len(ListBody(p).contacts) = 4

\* A finished call of the weather client: the temperature and the condition
\* the upstream gave, and the suggestion returned.
Advised(p) == Done(p, "weather") /\ res[p].status = 200
GivenTemp(p) == Get(Get(loc[p].upstream).results).temp
GivenCondition(p) == Get(Get(Get(loc[p].upstream).results).description)
Suggestion(p) == Get(res[p].body).suggestion

ContainsAny(condition, words) ==
  \E w \in words : SubstringCI(w, condition)

RainyWords == {Chuva, Chuvisco, Garoa, Precipitacao}
SunnyWords == {Limpo, Sol, Ensolarado, Claro}

\* C17: for every temperature t and condition, rainy and sunny classified
\* independently and without regard to case: hot chocolate when t <= 18;
\* when t >= 30, ice cream if rainy, else beach if sunny, else ice cream;
\* when 18 < t < 30, movie if rainy, else outdoor activity.  A condition both
\* rainy and sunny takes the rainy outcome.
C17_DecisionTable ==
  \A p \in Procs :
    Advised(p) =>
      LET t == GivenTemp(p)
          rainy == ContainsAny(GivenCondition(p), RainyWords)
          sunny == ContainsAny(GivenCondition(p), SunnyWords)
      IN  Suggestion(p) =
            CASE t <= 18 -> "chocolate quente"
              [] t >= 30 /\ rainy -> "sorvete"
              [] t >= 30 /\ ~rainy /\ sunny -> "praia"
              [] t >= 30 /\ ~rainy /\ ~sunny -> "sorvete"
              [] 18 < t /\ t < 30 /\ rainy -> "filme"
              [] 18 < t /\ t < 30 /\ ~rainy -> "atividade ao ar livre"

\* At exactly 30 degrees a condition both sunny and rainy got the ice cream.
C17_Witness ==
  \E p \in Procs :
    /\ Advised(p)
    /\ GivenTemp(p) = 30
    /\ ContainsAny(GivenCondition(p), RainyWords)
    /\ ContainsAny(GivenCondition(p), SunnyWords)
    /\ Suggestion(p) = "sorvete"

\* C18 as stated: for t >= 30, every condition containing "sol",
\* "ensolarado", "limpo" or "claro" gets the beach suggestion and every
\* condition containing "chuva", "garoa" or "chuvisco" gets the ice cream.
C18_HotSunnyIsBeach ==
  \A p \in Procs :
    (Advised(p) /\ GivenTemp(p) >= 30) =>
      /\ ContainsAny(GivenCondition(p), SunnyWords) => Suggestion(p) = "praia"
      /\ ContainsAny(GivenCondition(p), {Chuva, Garoa, Chuvisco}) =>
           Suggestion(p) = "sorvete"

\* C18, amended: for t >= 30, a condition containing "sol", "ensolarado",
\* "limpo" or "claro" and none of "chuva", "chuvisco", "garoa",
\* "precipitação" gets the beach suggestion; every condition containing
\* "chuva", "garoa", "chuvisco" or "precipitação" gets the ice cream, also
\* when it contains a sunny word.
C18_HotSunnyNotRainyIsBeach ==
  \A p \in Procs :
    (Advised(p) /\ GivenTemp(p) >= 30) =>
      /\ (/\ ContainsAny(GivenCondition(p), SunnyWords)
          /\ ~ContainsAny(GivenCondition(p), RainyWords)) =>
           Suggestion(p) = "praia"
      /\ ContainsAny(GivenCondition(p), RainyWords) =>
           Suggestion(p) = "sorvete"

\* Above 30 degrees a condition whose only sunny word is "claro" got the beach.
C18_Witness ==
  \E p \in Procs :
    /\ Advised(p)
    /\ GivenTemp(p) > 30
    /\ SubstringCI(Claro, GivenCondition(p))
    /\ Suggestion(p) = "praia"

\* C19: a successful softDelete of contact c changes only c.ativo, to false,
\* and c.updatedAt: the phone records (ids, numbers, owners) are the same,
\* every other column of c is the same, and every other contact is the same.
C19_SoftDeleteFrame ==
  \A p \in Procs :
    (Done(p, "softDelete") /\ res[p].status = 200) =>
      LET id == req[p].id IN
        /\ telefones = snap[p].telefones
        /\ DOMAIN contatos = DOMAIN snap[p].contatos
        /\ \A c \in DOMAIN contatos \ {id} : contatos[c] = snap[p].contatos[c]
        /\ ~contatos[id].ativo
        /\ \A f \in DOMAIN contatos[id] \ {"ativo", "updatedAt"} :
             contatos[id][f] = Before(p)[f]

\* A contact owning a phone was soft-deleted while the store held another
\* contact.
C19_Witness ==
  \E p \in Procs :
    /\ Done(p, "softDelete") /\ res[p].status = 200
    /\ PhonesOf(telefones, req[p].id) # {}
    /\ Cardinality(DOMAIN contatos) = 2
    /\ Before(p).ativo /\ ~contatos[req[p].id].ativo

\* C20 as stated: once a contact's active flag is false it is false in every
\* later state, whatever create, getWithWeather, update (with any input the
\* update operation accepts) and softDelete calls follow.
C20_InactiveTerminal ==
  [][\A c \in DOMAIN contatos \cap DOMAIN contatos' :
       ~contatos[c].ativo => ~contatos'[c].ativo]_vars

\* C20, amended: INACTIVE is terminal for the requests of the HTTP API, whose
\* update body schema has no ativo key; the only step that sets the active
\* flag of an inactive contact back to true is the write of a direct
\* ContactService.update (or repository update) call whose input carries
\* ativo = true, which the UpdateContactInput type admits.
C20_InactiveTerminalForRoutes ==
  [][\A c \in DOMAIN contatos \cap DOMAIN contatos' :
       (~contatos[c].ativo /\ contatos'[c].ativo) =>
         \E p \in Procs :
           /\ req[p].op = "update" /\ req[p].via = "service"
           /\ req[p].id = c /\ req[p].ativo = <<TRUE>>
           /\ pc[p] = "upd_write"]_vars

\* A PUT /contacts/:id whose body carried ativo = true succeeded on an
\* inactive contact, and the contact is still inactive.
C20_Witness ==
  \E p \in Procs :
    /\ Done(p, "update") /\ res[p].status = 200
    /\ req[p].via = "route" /\ req[p].ativo = <<TRUE>>
    /\ ExistedBefore(p) /\ ~Before(p).ativo
    /\ ~contatos[req[p].id].ativo

\* updatedAt of every contact is what it was when request p began.
UpdatedAtUnchanged(p) ==
  /\ DOMAIN contatos = DOMAIN snap[p].contatos
  /\ \A c \in DOMAIN contatos :
       contatos[c].updatedAt = snap[p].contatos[c].updatedAt

\* C21: each successful update (one that only adds or removes phones
\* included) and each successful softDelete sets the contact's updatedAt to
\* a later value and leaves that of every other contact; an update or
\* softDelete that fails with CONTACT_NOT_FOUND, DUPLICATE_EMAIL or
\* CONTACT_ALREADY_INACTIVE, a list and a getWithWeather change no updatedAt.
C21_UpdatedAtRefreshed ==
  \A p \in Procs :
    /\ ((Done(p, "update") \/ Done(p, "softDelete")) /\ res[p].status = 200) =>
         /\ contatos[req[p].id].updatedAt > Before(p).updatedAt
         /\ \A c \in DOMAIN contatos \ {req[p].id} :
              contatos[c].updatedAt = snap[p].contatos[c].updatedAt
    /\ ((Done(p, "update") \/ Done(p, "softDelete"))
          /\ res[p].error \in {"CONTACT_NOT_FOUND", "DUPLICATE_EMAIL",
                               "CONTACT_ALREADY_INACTIVE"}) =>
         UpdatedAtUnchanged(p)
    /\ (Done(p, "list") \/ Done(p, "get")) => UpdatedAtUnchanged(p)

\* An update that only added a phone succeeded, and updatedAt is later.
C21_Witness ==
  \E p \in Procs :
    /\ Done(p, "update") /\ res[p].status = 200
    /\ req[p].email = <<>> /\ req[p].cidade = <<>>
    /\ req[p].deletePhoneNumbers = <<>> /\ Len(req[p].addPhoneNumbers) = 1
    /\ contatos[req[p].id].updatedAt > Before(p).updatedAt

\* C22 as stated: a contact's id and createdAt never change after creation,
\* whatever update (with any input the store's update accepts) and
\* softDelete calls follow: every row stays under its id with its createdAt.
C22_IdAndCreatedAtImmutable ==
  [][\A c \in DOMAIN contatos :
       /\ c \in DOMAIN contatos'
       /\ contatos'[c].createdAt = contatos[c].createdAt]_vars

\* Supporting C22: the only step after which a row is no longer under its id,
\* or has another createdAt, is the write of a direct update call whose input
\* carries id (for a contact without phones) or createdAt; the requests of
\* the HTTP API, whose update body schema has neither key, change neither.
C22_ImmutableForRoutes ==
  [][\A c \in DOMAIN contatos :
       (c \notin DOMAIN contatos'
          \/ contatos'[c].createdAt # contatos[c].createdAt) =>
         \E p \in Procs :
           /\ req[p].op = "update" /\ req[p].via = "service" /\ req[p].id = c
           /\ pc[p] = "upd_write"
           /\ IF c \in DOMAIN contatos' THEN IsSome(req[p].createdAt)
              ELSE IsSome(req[p].bodyId) /\ PhonesOf(telefones, c) = {}]_vars

\* C23: in every reachable state each phone record references one contact
\* that is in the store, whatever create, update and softDelete requests
\* interleave, a direct update that changes a contact's id included.
C23_PhoneHasOwner ==
  \A ph \in DOMAIN telefones : telefones[ph].contatoId \in DOMAIN contatos

\* An update moved its contact to another id and its insert of a phone for
\* the old id was refused, while another contact kept its phone.
C23_Witness ==
  \E p \in Procs :
    /\ Done(p, "update") /\ res[p].status = 500
    /\ IsSome(req[p].bodyId) /\ Len(req[p].addPhoneNumbers) > 0
    /\ req[p].id \notin DOMAIN contatos
    /\ Get(req[p].bodyId) \in DOMAIN contatos
    /\ telefones # <<>>

\* The active filter of a GET /contacts without ativo.
DefaultFilter == ListParams(ListQuerySchema(ListQuery(<<>>, <<>>))).ativo

\* C24: update checks existence only.  An update of a soft-deleted contact
\* (whose new email, if any, is free) succeeds, writes the supplied fields,
\* removes the named phones the contact owns and adds the supplied ones, and
\* leaves the contact inactive: getWithWeather still treats it as not found
\* and the default listing still leaves it out.
C24_UpdateOfInactive ==
  \A p \in Procs :
    (Done(p, "update") /\ ExistedBefore(p) /\ ~Before(p).ativo
       /\ ~EmailConflict(p)) =>
      LET id == req[p].id
          old == snap[p].telefones
          named == SeqToSet(req[p].deletePhoneNumbers)
          added == DOMAIN telefones \ DOMAIN old
      IN  /\ res[p].status = 200 /\ res[p].error = ""
          /\ IsSome(req[p].email) => contatos[id].email = Get(req[p].email)
          /\ IsSome(req[p].cidade) => contatos[id].cidade = Get(req[p].cidade)
          /\ \A ph \in DOMAIN old :
               ph \in DOMAIN telefones <=> ~(old[ph].contatoId = id /\ ph \in named)
          /\ Cardinality(added) = Len(req[p].addPhoneNumbers)
          /\ \A ph \in added : telefones[ph].contatoId = id
          /\ ~contatos[id].ativo
          /\ NotFoundOrInactive(findById(id))
          /\ id \notin ListWhere(contatos, telefones, <<>>, DefaultFilter)

\* A soft-deleted contact got another email, lost a phone and gained one.
C24_Witness ==
  \E p \in Procs :
    /\ Done(p, "update") /\ res[p].status = 200
    /\ ExistedBefore(p) /\ ~Before(p).ativo
    /\ contatos[req[p].id].email # Before(p).email
    /\ \E ph \in DOMAIN snap[p].telefones : ph \notin DOMAIN telefones
    /\ \E ph \in DOMAIN telefones : ph \notin DOMAIN snap[p].telefones
    /\ ~contatos[req[p].id].ativo

\* The step is one of request p.
StepOf(p) == pc'[p] # pc[p] \/ loc'[p] # loc[p]

\* C25: update is not atomic.  Its store steps come one after the other -- the
\* field update, which touches no phone; then the deletions, each removing at
\* most one phone and no contact field; then the additions, which remove
\* nothing -- and a step that fails after the field update puts nothing back:
\* the tables stay as the earlier steps left them.
C25_UpdateInSeparateSteps ==
  [][\A p \in Procs :
       (req[p].op = "update" /\ StepOf(p)) =>
         /\ pc'[p] = "upd_ownership" => pc[p] = "upd_write"
         /\ pc'[p] = "upd_delete" => pc[p] \in {"upd_ownership", "upd_delete"}
         /\ pc'[p] = "upd_add" =>
              pc[p] \in {"upd_write", "upd_ownership", "upd_delete"}
         /\ pc[p] = "upd_write" => telefones' = telefones
         /\ pc[p] = "upd_delete" =>
              /\ contatos' = contatos
              /\ DOMAIN telefones' \subseteq DOMAIN telefones
              /\ Cardinality(DOMAIN telefones \ DOMAIN telefones') <= 1
         /\ pc[p] = "upd_add" =>
              /\ contatos' = contatos
              /\ DOMAIN telefones \subseteq DOMAIN telefones'
         /\ (pc[p] \in {"upd_delete", "upd_add"} /\ res'[p].status = 500) =>
              contatos' = contatos /\ telefones' = telefones]_vars

\* An update changed the email and deleted a phone, then its insert failed:
\* the new email and the deletion are in the store, no phone was added, and a
\* getWithWeather that ran between the field update and the deletion
\* returned the new email together with the phone deleted afterwards.
C25_Witness ==
  \E p, q \in Procs :
    /\ Done(p, "update") /\ res[p].status = 500
    /\ ExistedBefore(p) /\ req[p].id \in DOMAIN contatos
    /\ IsSome(req[p].email)
    /\ Before(p).email # Get(req[p].email)
    /\ contatos[req[p].id].email = Get(req[p].email)
    /\ \E ph \in DOMAIN snap[p].telefones : ph \notin DOMAIN telefones
    /\ DOMAIN telefones \subseteq DOMAIN snap[p].telefones
    /\ Done(q, "get") /\ res[q].status = 200 /\ req[q].id = req[p].id
    /\ Get(res[q].body).email = Get(req[p].email)
    /\ \E t \in Get(res[q].body).telefones : t.id \notin DOMAIN telefones

\* C26 as stated: an email conflict detected by the store ends the request
\* with the named error DUPLICATE_EMAIL, for a create whose email is taken and
\* for an update whose new email was taken by a concurrent request between
\* its uniqueness check and its write.
C26_ConflictIsDuplicateEmail ==
  [][\A p \in Procs :
       /\ (pc[p] = "idle" /\ req'[p].op = "create"
             /\ EmailUniqueViolation(Get(req'[p].email), 0)) =>
            res'[p].error = "DUPLICATE_EMAIL"
       /\ (req[p].op = "update" /\ pc[p] = "upd_write" /\ StepOf(p)
             /\ req[p].id \in DOMAIN contatos /\ IsSome(req[p].email)
             /\ EmailUniqueViolation(Get(req[p].email), req[p].id)) =>
            res'[p].error = "DUPLICATE_EMAIL"]_vars

\* Supporting C26: the create half holds, the unique violation of an insert
\* being answered 409 DUPLICATE_EMAIL by the route's catch block.
C26_CreateConflictIsDuplicateEmail ==
  [][\A p \in Procs :
       (pc[p] = "idle" /\ req'[p].op = "create"
          /\ EmailUniqueViolation(Get(req'[p].email), 0)) =>
         res'[p].status = 409 /\ res'[p].error = "DUPLICATE_EMAIL"]_vars

\* C27 as stated: of the softDelete calls in flight on one contact at most
\* one returns success, every other one returning CONTACT_ALREADY_INACTIVE,
\* and the contact's updatedAt advances at most once: the write of a
\* softDelete never lands on a contact that is already inactive.
C27_OneSoftDeleteSucceeds ==
  /\ [](\A p, q \in Procs :
          (p # q /\ Done(p, "softDelete") /\ Done(q, "softDelete")
             /\ req[p].id = req[q].id /\ res[p].status = 200) =>
            res[q].error = "CONTACT_ALREADY_INACTIVE")
  /\ [][\A p \in Procs :
          (req[p].op = "softDelete" /\ pc[p] = "sd_write" /\ StepOf(p)
             /\ req[p].id \in DOMAIN contatos /\ ~contatos[req[p].id].ativo) =>
            contatos'[req[p].id].updatedAt = contatos[req[p].id].updatedAt]_vars

\* C28 as stated: for every page and limit the list query schema accepts (0
\* included for both), ContactService.list passes the store an offset >= 0
\* and a limit between 1 and 100, and the totalPages it computes is a finite
\* non-negative integer.
C28_ListArithmetic ==
  \A p \in Procs :
    (req[p].op = "list" /\ IsSome(loc[p].list)) =>
      LET l == Get(loc[p].list)
          totalPages ==
            Pagination(l.params.page, l.params.limit, l.totalItems).totalPages
      IN  /\ l.params.offset >= 0
          /\ l.params.limit \in 1..MaxLimit
          /\ totalPages.kind = "finite" /\ totalPages.value >= 0

\* Supporting C28: the three hold whenever page and limit are absent or at
\* least 1.
C28_ListArithmeticFromOne ==
  \A p \in Procs :
    (req[p].op = "list" /\ IsSome(loc[p].list)
       /\ (IsSome(req[p].page) => Get(req[p].page) >= 1)
       /\ (IsSome(req[p].limit) => Get(req[p].limit) >= 1)) =>
      LET l == Get(loc[p].list)
          totalPages ==
            Pagination(l.params.page, l.params.limit, l.totalItems).totalPages
      IN  /\ l.params.offset >= 0
          /\ l.params.limit \in 1..MaxLimit
          /\ totalPages.kind = "finite" /\ totalPages.value >= 0

MathMax(a, b) == IF a >= b THEN a ELSE b

\* C30 as stated: every list result is internally consistent, also when other
\* requests create or soft-delete contacts while the list runs.  The number
\* of returned contacts is min(limit, max(0, totalItems - offset)), every
\* returned contact satisfies the active filter, and each returned contact
\* carries exactly the phones it owns when the reply is made.
C30_ListResultConsistent ==
  /\ [](\A p \in Procs :
          Listed(p) =>
            LET pg == ListBody(p).pagination
                offset == (pg.currentPage - 1) * pg.itemsPerPage
                filter == Get(loc[p].list).params.ativo
            IN  /\ Len(ListBody(p).contacts) =
                     MathMin(pg.itemsPerPage, MathMax(0, pg.totalItems - offset))
                /\ \A c \in ListedContacts(p) :
                     IsSome(filter) => c.ativo = Get(filter))
  /\ [][\A p \in Procs :
          (req[p].op = "list" /\ pc[p] # "done" /\ pc'[p] = "done"
             /\ res'[p].status = 200) =>
            \A c \in SeqToSet(Get(res'[p].body).contacts) :
              c.telefones = PhoneSummaries(telefones, c.id)]_vars

\* Supporting C30: a list served while no other request is in flight is
\* consistent in the three respects.
C30_ListResultConsistentAlone ==
  \A p \in Procs :
    Listed(p) =>
      LET pg == ListBody(p).pagination
          offset == (pg.currentPage - 1) * pg.itemsPerPage
          filter == Get(loc[p].list).params.ativo
      IN  /\ Len(ListBody(p).contacts) =
               MathMin(pg.itemsPerPage, MathMax(0, pg.totalItems - offset))
          /\ \A c \in ListedContacts(p) :
               /\ IsSome(filter) => c.ativo = Get(filter)
               /\ c.telefones = PhoneSummaries(telefones, c.id)

====
